---- MODULE Spec2Model ----
(***************************************************************************)
(* Module template resolution and version-skew guard of the lifecycle      *)
(* manager (pkg/templatelookup/regular.go, the older pkg/channel lookup)   *)
(* as a state machine.                                                     *)
(*                                                                         *)
(* A Go pointer is a sequence of length 0 (nil) or 1.  A Go error is the   *)
(* name of the sentinel it wraps; ErrNil is the nil error.                 *)
(* client.Reader.List is read as returning the catalog's templates in any  *)
(* order; a failing List (a client failure, not a catalog state) is not    *)
(* part of the model.                                                      *)
(***************************************************************************)
EXTENDS Naturals, Sequences, FiniteSets, Bags, TLC

VARIABLES
    catalog,          \* control-plane ModuleTemplates: a function 1..n -> template
    remoteCatalog,    \* ModuleTemplates of the runtime cluster (older GetTemplates only)
    kyma,             \* Kyma spec: modules, default channel, internal/beta labels
    kymaStatus,       \* Kyma.Status.Modules: a sequence of ModuleStatus
    templates,        \* result map of the last pass, by module name
    lastOp,           \* the operation or environment change that ran last
    descriptorCache,  \* CachedDescriptorProvider: cache key -> descriptor
    listCalls,        \* module names the last operation called List for, in call order
    lookup,           \* arguments and results of the last single lookup
    guard,            \* input and results of the last single skew check
    handler,          \* RestrictedEnqueueRequestForOwner: its fields and setup results
    queue,            \* the last event callback: its event and the q.Add calls
    Descriptor,       \* ModuleTemplateSpec.Descriptor of one template: Raw and Object
    callers,          \* the goroutines inside GetDescriptor: position and locals
    call              \* arguments and results of the last call of a single function

vars == <<catalog, remoteCatalog, kyma, kymaStatus, templates, lastOp,
          descriptorCache, listCalls, lookup, guard, handler, queue,
          Descriptor, callers, call>>

-----------------------------------------------------------------------------
(* Bounds *)

MaxTemplates == 3
MaxGeneration == 2

-----------------------------------------------------------------------------
(* Errors *)

ErrNil == "nil"
ErrTemplateNotIdentified == "ErrTemplateNotIdentified"
ErrNotDefaultChannelAllowed == "ErrNotDefaultChannelAllowed"
ErrNoTemplatesInListResult == "ErrNoTemplatesInListResult"
ErrTemplateMarkedAsMandatory == "ErrTemplateMarkedAsMandatory"
ErrTemplateNotAllowed == "ErrTemplateNotAllowed"
ErrTemplateUpdateNotAllowed == "ErrTemplateUpdateNotAllowed"
ErrTemplateNotValid == "ErrTemplateNotValid"
ErrInvalidRemoteModuleConfiguration == "ErrInvalidRemoteModuleConfiguration"
ErrInvalidDescriptor == "invalid ModuleTemplate descriptor"

DefaultChannel == "regular"

Nil == <<>>
Ptr(x) == <<x>>
Deref(p) == p[1]

-----------------------------------------------------------------------------
(* Descriptors and versions *)

\* compdesc.Decode of a template's raw descriptor: a decode error, or the
\* descriptor's component name and version.
Decode(raw) ==
    IF raw.decodable
    THEN [err |-> ErrNil, Name |-> raw.name, Version |-> raw.version]
    ELSE [err |-> ErrInvalidDescriptor, Name |-> "", Version |-> ""]

\* ModuleTemplateSpec.GetDescriptor: the memoized object, else the decode.
SpecGetDescriptor(template) == Decode(template.descriptor)

\* "%s:%s:%s" of channel, descriptor name and descriptor version.
GetComponentDescriptorCacheKey(template) ==
    LET descriptor == SpecGetDescriptor(template) IN
    IF descriptor.err # ErrNil THEN [err |-> descriptor.err, key |-> ""]
    ELSE [err |-> ErrNil,
          key |-> template.channel \o ":" \o descriptor.Name \o ":" \o descriptor.Version]

\* CachedDescriptorProvider.GetDescriptor: the cached descriptor of the
\* template's key, else the decode.
ProviderGetDescriptor(cache, template) ==
    LET k == GetComponentDescriptorCacheKey(template) IN
    IF k.err # ErrNil THEN [err |-> k.err, Name |-> "", Version |-> ""]
    ELSE IF k.key \in DOMAIN cache THEN cache[k.key]
    ELSE SpecGetDescriptor(template)

\* CachedDescriptorProvider.Add: decodes and stores under the template's key.
ProviderAdd(cache, template) ==
    LET k == GetComponentDescriptorCacheKey(template) IN
    IF k.err # ErrNil THEN [err |-> k.err, cache |-> cache]
    ELSE IF k.key \in DOMAIN cache THEN [err |-> ErrNil, cache |-> cache]
    ELSE [err |-> ErrNil, cache |-> (k.key :> SpecGetDescriptor(template)) @@ cache]

\* The version strings of the model and what semver.NewVersion makes of them:
\* a leading "v" is accepted, anything else that is not MAJOR.MINOR.PATCH fails.
VersionStrings == {"0.9.0", "1.0.0", "v1.0.0", "2.0.0", "bad"}

NewVersion(s) ==
    CASE s = "0.9.0"  -> [ok |-> TRUE, v |-> <<0, 9, 0>>]
      [] s = "1.0.0"  -> [ok |-> TRUE, v |-> <<1, 0, 0>>]
      [] s = "v1.0.0" -> [ok |-> TRUE, v |-> <<1, 0, 0>>]
      [] s = "2.0.0"  -> [ok |-> TRUE, v |-> <<2, 0, 0>>]
      [] OTHER        -> [ok |-> FALSE, v |-> <<0, 0, 0>>]

\* semver.Version.LessThan / GreaterThan on MAJOR.MINOR.PATCH
LessThan(a, b) ==
    \/ a[1] < b[1]
    \/ a[1] = b[1] /\ a[2] < b[2]
    \/ a[1] = b[1] /\ a[2] = b[2] /\ a[3] < b[3]

GreaterThan(a, b) == LessThan(b, a)

\* v1beta2.IsValidVersionChange(new, old): the new version is not lower.
IsValidVersionChange(newVersion, oldVersion) == ~LessThan(newVersion, oldVersion)

-----------------------------------------------------------------------------
(* Lookup: pkg/templatelookup/regular.go *)

\* getDesiredChannel without the fallback on DefaultChannel.
getDesiredChannel_NoDefault(moduleChannel, globalChannel) ==
    IF moduleChannel # "" THEN moduleChannel ELSE globalChannel

\* getDesiredChannel that prefers the Kyma's channel to the module's own.
getDesiredChannel_GlobalFirst(moduleChannel, globalChannel) ==
    IF globalChannel # "" THEN globalChannel
    ELSE IF moduleChannel # "" THEN moduleChannel
    ELSE DefaultChannel

getDesiredChannel(moduleChannel, globalChannel) ==
    IF moduleChannel # "" THEN moduleChannel
    ELSE IF globalChannel # "" THEN globalChannel
    ELSE DefaultChannel

\* client.Reader.List: the catalog's templates in the order `order`.
List(cat, order) == [i \in 1..Len(order) |-> cat[order[i]]]

\* The filter loop with a label predicate that does not look at the channel.
RECURSIVE filterTemplates_LabelAnyChannel(_, _, _, _, _, _)
filterTemplates_LabelAnyChannel(cache, items, i, name, desiredChannel, filtered) ==
    IF i > Len(items) THEN [err |-> ErrNil, filtered |-> filtered]
    ELSE
      LET template == items[i] IN
      IF template.label = name
         \/ ((template.namespace \o "/" \o template.name) = name
             /\ template.channel = desiredChannel)
         \/ (template.name = name /\ template.channel = desiredChannel)
      THEN filterTemplates_LabelAnyChannel(cache, items, i + 1, name, desiredChannel,
                                           Append(filtered, template))
      ELSE
        LET descriptor == ProviderGetDescriptor(cache, template) IN
        IF descriptor.err # ErrNil
        THEN [err |-> ErrInvalidDescriptor, filtered |-> <<>>]
        ELSE IF descriptor.Name = name /\ template.channel = desiredChannel
        THEN filterTemplates_LabelAnyChannel(cache, items, i + 1, name,
                                             desiredChannel, Append(filtered, template))
        ELSE filterTemplates_LabelAnyChannel(cache, items, i + 1, name,
                                             desiredChannel, filtered)

\* The filter loop without the continue after a label match: a template
\* whose label matched is tried against the other predicates as well.
RECURSIVE filterTemplates_NoContinue(_, _, _, _, _, _)
filterTemplates_NoContinue(cache, items, i, name, desiredChannel, filtered) ==
    IF i > Len(items) THEN [err |-> ErrNil, filtered |-> filtered]
    ELSE
      LET template == items[i]
          afterLabel ==
            IF template.label = name /\ template.channel = desiredChannel
            THEN Append(filtered, template)
            ELSE filtered
      IN
      IF (template.namespace \o "/" \o template.name) = name
         /\ template.channel = desiredChannel
      THEN filterTemplates_NoContinue(cache, items, i + 1, name, desiredChannel,
                                      Append(afterLabel, template))
      ELSE IF template.name = name /\ template.channel = desiredChannel
      THEN filterTemplates_NoContinue(cache, items, i + 1, name, desiredChannel,
                                      Append(afterLabel, template))
      ELSE
        LET descriptor == ProviderGetDescriptor(cache, template) IN
        IF descriptor.err # ErrNil
        THEN IF afterLabel # filtered
             THEN filterTemplates_NoContinue(cache, items, i + 1, name,
                                             desiredChannel, afterLabel)
             ELSE [err |-> ErrInvalidDescriptor, filtered |-> <<>>]
        ELSE IF descriptor.Name = name /\ template.channel = desiredChannel
        THEN filterTemplates_NoContinue(cache, items, i + 1, name, desiredChannel,
                                        Append(afterLabel, template))
        ELSE filterTemplates_NoContinue(cache, items, i + 1, name, desiredChannel,
                                        afterLabel)

\* The filter loop that skips a template whose descriptor does not decode
\* instead of ending with the error.
RECURSIVE filterTemplates_SkipUndecodable(_, _, _, _, _, _)
filterTemplates_SkipUndecodable(cache, items, i, name, desiredChannel, filtered) ==
    IF i > Len(items) THEN [err |-> ErrNil, filtered |-> filtered]
    ELSE
      LET template == items[i] IN
      IF /\ template.channel = desiredChannel
         /\ \/ template.label = name
            \/ (template.namespace \o "/" \o template.name) = name
            \/ template.name = name
      THEN filterTemplates_SkipUndecodable(cache, items, i + 1, name, desiredChannel,
                                           Append(filtered, template))
      ELSE
        LET descriptor == ProviderGetDescriptor(cache, template) IN
        IF /\ descriptor.err = ErrNil
           /\ descriptor.Name = name
           /\ template.channel = desiredChannel
        THEN filterTemplates_SkipUndecodable(cache, items, i + 1, name,
                                             desiredChannel, Append(filtered, template))
        ELSE filterTemplates_SkipUndecodable(cache, items, i + 1, name,
                                             desiredChannel, filtered)

\* The filter loop of getTemplate from item i on; filtered holds the matches
\* so far.  A decode failure ends the loop with the error.
RECURSIVE filterTemplates(_, _, _, _, _, _)
filterTemplates(cache, items, i, name, desiredChannel, filtered) ==
    IF i > Len(items) THEN [err |-> ErrNil, filtered |-> filtered]
    ELSE
      LET template == items[i] IN
      IF template.label = name /\ template.channel = desiredChannel
      THEN filterTemplates(cache, items, i + 1, name, desiredChannel,
                           Append(filtered, template))
      ELSE IF (template.namespace \o "/" \o template.name) = name
              /\ template.channel = desiredChannel
      THEN filterTemplates(cache, items, i + 1, name, desiredChannel,
                           Append(filtered, template))
      ELSE IF template.name = name /\ template.channel = desiredChannel
      THEN filterTemplates(cache, items, i + 1, name, desiredChannel,
                           Append(filtered, template))
      ELSE
        LET descriptor == ProviderGetDescriptor(cache, template) IN
        IF descriptor.err # ErrNil
        THEN [err |-> ErrInvalidDescriptor, filtered |-> <<>>]
        ELSE IF descriptor.Name = name /\ template.channel = desiredChannel
        THEN filterTemplates(cache, items, i + 1, name, desiredChannel,
                             Append(filtered, template))
        ELSE filterTemplates(cache, items, i + 1, name, desiredChannel, filtered)

\* NewMoreThanOneTemplateCandidateErr: the error and the template names its
\* message lists as candidates.
NewMoreThanOneTemplateCandidateErr(moduleName, candidateTemplates) ==
    [err |-> ErrTemplateNotIdentified,
     candidates |-> {candidateTemplates[i].name : i \in DOMAIN candidateTemplates}]

\* getTemplate that takes the first of several candidates instead of
\* reporting ErrTemplateNotIdentified.
getTemplate_FirstCandidate(cache, items, name, desiredChannel) ==
    LET r == filterTemplates(cache, items, 1, name, desiredChannel, <<>>) IN
    IF r.err # ErrNil THEN [template |-> Nil, err |-> r.err, candidates |-> {}]
    ELSE IF Len(r.filtered) = 0
    THEN [template |-> Nil, err |-> ErrNoTemplatesInListResult, candidates |-> {}]
    ELSE IF r.filtered[1].mandatory
    THEN [template |-> Nil, err |-> ErrTemplateMarkedAsMandatory, candidates |-> {}]
    ELSE [template |-> Ptr(r.filtered[1]), err |-> ErrNil, candidates |-> {}]

\* getTemplate without the check of Spec.Mandatory.
getTemplate_NoMandatoryCheck(cache, items, name, desiredChannel) ==
    LET r == filterTemplates(cache, items, 1, name, desiredChannel, <<>>) IN
    IF r.err # ErrNil THEN [template |-> Nil, err |-> r.err, candidates |-> {}]
    ELSE IF Len(r.filtered) > 1
    THEN [template |-> Nil,
          err |-> NewMoreThanOneTemplateCandidateErr(name, items).err,
          candidates |-> NewMoreThanOneTemplateCandidateErr(name, items).candidates]
    ELSE IF Len(r.filtered) = 0
    THEN [template |-> Nil, err |-> ErrNoTemplatesInListResult, candidates |-> {}]
    ELSE [template |-> Ptr(r.filtered[1]), err |-> ErrNil, candidates |-> {}]

\* getTemplate that takes the last of several candidates instead of
\* reporting ErrTemplateNotIdentified.
getTemplate_LastCandidate(cache, items, name, desiredChannel) ==
    LET r == filterTemplates(cache, items, 1, name, desiredChannel, <<>>) IN
    IF r.err # ErrNil THEN [template |-> Nil, err |-> r.err, candidates |-> {}]
    ELSE IF Len(r.filtered) = 0
    THEN [template |-> Nil, err |-> ErrNoTemplatesInListResult, candidates |-> {}]
    ELSE IF r.filtered[Len(r.filtered)].mandatory
    THEN [template |-> Nil, err |-> ErrTemplateMarkedAsMandatory, candidates |-> {}]
    ELSE [template |-> Ptr(r.filtered[Len(r.filtered)]), err |-> ErrNil,
          candidates |-> {}]

\* getTemplate that reports every count of candidates other than one as
\* ErrTemplateNotIdentified.
getTemplate_NotOneIsAmbiguous(cache, items, name, desiredChannel) ==
    LET r == filterTemplates(cache, items, 1, name, desiredChannel, <<>>) IN
    IF r.err # ErrNil THEN [template |-> Nil, err |-> r.err, candidates |-> {}]
    ELSE IF Len(r.filtered) # 1
    THEN [template |-> Nil,
          err |-> NewMoreThanOneTemplateCandidateErr(name, items).err,
          candidates |-> NewMoreThanOneTemplateCandidateErr(name, items).candidates]
    ELSE IF r.filtered[1].mandatory
    THEN [template |-> Nil, err |-> ErrTemplateMarkedAsMandatory, candidates |-> {}]
    ELSE [template |-> Ptr(r.filtered[1]), err |-> ErrNil, candidates |-> {}]

getTemplate(cache, items, name, desiredChannel) ==
    LET r == filterTemplates(cache, items, 1, name, desiredChannel, <<>>) IN
    IF r.err # ErrNil THEN [template |-> Nil, err |-> r.err, candidates |-> {}]
    ELSE IF Len(r.filtered) > 1
    THEN [template |-> Nil,
          err |-> NewMoreThanOneTemplateCandidateErr(name, items).err,
          candidates |-> NewMoreThanOneTemplateCandidateErr(name, items).candidates]
    ELSE IF Len(r.filtered) = 0
    THEN [template |-> Nil, err |-> ErrNoTemplatesInListResult, candidates |-> {}]
    ELSE IF r.filtered[1].mandatory
    THEN [template |-> Nil, err |-> ErrTemplateMarkedAsMandatory, candidates |-> {}]
    ELSE [template |-> Ptr(r.filtered[1]), err |-> ErrNil, candidates |-> {}]

\* GetAndValidate with a lookup that skips the empty-channel check and asks
\* for the module's own channel instead of the desired one.
GetAndValidate_RawChannel(cache, items, name, channel, defaultChannel) ==
    LET r == getTemplate(cache, items, name, channel) IN
    [ModuleTemplate |-> r.template, Err |-> r.err,
     DesiredChannel |-> getDesiredChannel(channel, defaultChannel)]

GetAndValidate(cache, items, name, channel, defaultChannel) ==
    LET desiredChannel == getDesiredChannel(channel, defaultChannel)
        r == getTemplate(cache, items, name, desiredChannel)
    IN
    IF r.err # ErrNil
    THEN [ModuleTemplate |-> Nil, Err |-> r.err, DesiredChannel |-> desiredChannel]
    ELSE IF Deref(r.template).channel = ""
    THEN [ModuleTemplate |-> Nil, Err |-> ErrNotDefaultChannelAllowed,
          DesiredChannel |-> desiredChannel]
    ELSE [ModuleTemplate |-> r.template, Err |-> ErrNil,
          DesiredChannel |-> desiredChannel]

-----------------------------------------------------------------------------
(* Lookup: the older pkg/channel package *)

\* The filter loop of the older getTemplate: label, object name, descriptor
\* name; the descriptor comes from ModuleTemplateSpec.GetDescriptor.
RECURSIVE channelFilterTemplates(_, _, _, _, _)
channelFilterTemplates(items, i, moduleIdentifier, desiredChannel, filtered) ==
    IF i > Len(items) THEN [err |-> ErrNil, filtered |-> filtered]
    ELSE
      LET template == items[i] IN
      IF template.label = moduleIdentifier /\ template.channel = desiredChannel
      THEN channelFilterTemplates(items, i + 1, moduleIdentifier, desiredChannel,
                                  Append(filtered, template))
      ELSE IF template.name = moduleIdentifier /\ template.channel = desiredChannel
      THEN channelFilterTemplates(items, i + 1, moduleIdentifier, desiredChannel,
                                  Append(filtered, template))
      ELSE
        LET descriptor == SpecGetDescriptor(template) IN
        IF descriptor.err # ErrNil
        THEN [err |-> ErrInvalidDescriptor, filtered |-> <<>>]
        ELSE IF descriptor.Name = moduleIdentifier /\ template.channel = desiredChannel
        THEN channelFilterTemplates(items, i + 1, moduleIdentifier, desiredChannel,
                                    Append(filtered, template))
        ELSE channelFilterTemplates(items, i + 1, moduleIdentifier, desiredChannel,
                                    filtered)

channelGetTemplate(items, moduleIdentifier, desiredChannel) ==
    LET r == channelFilterTemplates(items, 1, moduleIdentifier, desiredChannel, <<>>) IN
    IF r.err # ErrNil THEN [template |-> Nil, err |-> r.err, candidates |-> {}]
    ELSE IF Len(r.filtered) > 1
    THEN [template |-> Nil,
          err |-> NewMoreThanOneTemplateCandidateErr(moduleIdentifier, items).err,
          candidates |-> NewMoreThanOneTemplateCandidateErr(moduleIdentifier, items).candidates]
    ELSE IF Len(r.filtered) = 0
    THEN [template |-> Nil, err |-> ErrNoTemplatesInListResult, candidates |-> {}]
    ELSE [template |-> Ptr(r.filtered[1]), err |-> ErrNil, candidates |-> {}]

\* TemplateLookup.WithContext of the older package
WithContext(items, module, defaultChannel) ==
    LET desiredChannel == getDesiredChannel(module.Channel, defaultChannel)
        r == channelGetTemplate(items, module.Name, desiredChannel)
    IN
    IF r.err # ErrNil
    THEN [ModuleTemplate |-> Nil, Outdated |-> FALSE, Err |-> r.err,
          DesiredChannel |-> desiredChannel]
    ELSE IF Deref(r.template).channel = ""
    THEN [ModuleTemplate |-> Nil, Outdated |-> FALSE,
          Err |-> ErrNotDefaultChannelAllowed, DesiredChannel |-> desiredChannel]
    ELSE [ModuleTemplate |-> r.template, Outdated |-> FALSE, Err |-> ErrNil,
          DesiredChannel |-> desiredChannel]

-----------------------------------------------------------------------------
(* Version-skew guard *)

\* moduleMatch that takes every status entry for the module's.
moduleMatch_Any(moduleStatus, moduleName) == TRUE

moduleMatch(moduleStatus, moduleName) ==
    moduleStatus.FQDN = moduleName \/ moduleStatus.Name = moduleName

\* checkValidTemplateUpdate without the comparison of the two versions: a
\* channel skew with two valid versions is always let through.
checkValidTemplateUpdate_NoCompare(cache, moduleTemplate, moduleStatus) ==
    IF moduleStatus.Template = Nil THEN moduleTemplate
    ELSE IF Deref(moduleTemplate.ModuleTemplate).channel # moduleStatus.Channel
    THEN
      LET descriptor == ProviderGetDescriptor(cache, Deref(moduleTemplate.ModuleTemplate))
          versionInTemplate == NewVersion(descriptor.Version)
          versionInStatus == NewVersion(moduleStatus.Version)
      IN
      IF descriptor.err # ErrNil \/ ~versionInTemplate.ok \/ ~versionInStatus.ok
      THEN [moduleTemplate EXCEPT !.Err = ErrTemplateUpdateNotAllowed]
      ELSE moduleTemplate
    ELSE moduleTemplate

\* checkValidTemplateUpdate with the version comparison reversed: equal or
\* higher versions are refused and lower ones let through.
checkValidTemplateUpdate_Reversed(cache, moduleTemplate, moduleStatus) ==
    IF moduleStatus.Template = Nil THEN moduleTemplate
    ELSE IF Deref(moduleTemplate.ModuleTemplate).channel # moduleStatus.Channel
    THEN
      LET descriptor == ProviderGetDescriptor(cache, Deref(moduleTemplate.ModuleTemplate))
          versionInTemplate == NewVersion(descriptor.Version)
          versionInStatus == NewVersion(moduleStatus.Version)
      IN
      IF descriptor.err # ErrNil \/ ~versionInTemplate.ok \/ ~versionInStatus.ok
      THEN [moduleTemplate EXCEPT !.Err = ErrTemplateUpdateNotAllowed]
      ELSE IF IsValidVersionChange(versionInTemplate.v, versionInStatus.v)
      THEN [moduleTemplate EXCEPT !.Err = ErrTemplateUpdateNotAllowed]
      ELSE moduleTemplate
    ELSE moduleTemplate

\* checkValidTemplateUpdate that also refuses a generation skew in the same
\* channel.
checkValidTemplateUpdate_GenerationError(cache, moduleTemplate, moduleStatus) ==
    IF moduleStatus.Template = Nil THEN moduleTemplate
    ELSE IF Deref(moduleTemplate.ModuleTemplate).channel # moduleStatus.Channel
    THEN
      LET descriptor == ProviderGetDescriptor(cache, Deref(moduleTemplate.ModuleTemplate))
          versionInTemplate == NewVersion(descriptor.Version)
          versionInStatus == NewVersion(moduleStatus.Version)
      IN
      IF descriptor.err # ErrNil \/ ~versionInTemplate.ok \/ ~versionInStatus.ok
      THEN [moduleTemplate EXCEPT !.Err = ErrTemplateUpdateNotAllowed]
      ELSE IF ~IsValidVersionChange(versionInTemplate.v, versionInStatus.v)
      THEN [moduleTemplate EXCEPT !.Err = ErrTemplateUpdateNotAllowed]
      ELSE moduleTemplate
    ELSE IF Deref(moduleTemplate.ModuleTemplate).generation
              # Deref(moduleStatus.Template).Generation
    THEN [moduleTemplate EXCEPT !.Err = ErrTemplateUpdateNotAllowed]
    ELSE moduleTemplate

\* checkValidTemplateUpdate that refuses every channel change, whatever the
\* two versions are.
checkValidTemplateUpdate_ChannelOnly(cache, moduleTemplate, moduleStatus) ==
    IF moduleStatus.Template = Nil THEN moduleTemplate
    ELSE IF Deref(moduleTemplate.ModuleTemplate).channel # moduleStatus.Channel
    THEN [moduleTemplate EXCEPT !.Err = ErrTemplateUpdateNotAllowed]
    ELSE moduleTemplate

\* checkValidTemplateUpdate that lets a channel change through when the
\* descriptor or one of the two versions cannot be read.
checkValidTemplateUpdate_FailOpen(cache, moduleTemplate, moduleStatus) ==
    IF moduleStatus.Template = Nil THEN moduleTemplate
    ELSE IF Deref(moduleTemplate.ModuleTemplate).channel # moduleStatus.Channel
    THEN
      LET descriptor == ProviderGetDescriptor(cache, Deref(moduleTemplate.ModuleTemplate))
          versionInTemplate == NewVersion(descriptor.Version)
          versionInStatus == NewVersion(moduleStatus.Version)
      IN
      IF descriptor.err # ErrNil \/ ~versionInTemplate.ok \/ ~versionInStatus.ok
      THEN moduleTemplate
      ELSE IF ~IsValidVersionChange(versionInTemplate.v, versionInStatus.v)
      THEN [moduleTemplate EXCEPT !.Err = ErrTemplateUpdateNotAllowed]
      ELSE moduleTemplate
    ELSE moduleTemplate

\* checkValidTemplateUpdate: the ModuleTemplateInfo after the call.
checkValidTemplateUpdate(cache, moduleTemplate, moduleStatus) ==
    IF moduleStatus.Template = Nil THEN moduleTemplate
    ELSE IF Deref(moduleTemplate.ModuleTemplate).channel # moduleStatus.Channel
    THEN
      LET descriptor == ProviderGetDescriptor(cache, Deref(moduleTemplate.ModuleTemplate))
          versionInTemplate == NewVersion(descriptor.Version)
          versionInStatus == NewVersion(moduleStatus.Version)
      IN
      IF descriptor.err # ErrNil
      THEN [moduleTemplate EXCEPT !.Err = ErrTemplateUpdateNotAllowed]
      ELSE IF ~versionInTemplate.ok
      THEN [moduleTemplate EXCEPT !.Err = ErrTemplateUpdateNotAllowed]
      ELSE IF ~versionInStatus.ok
      THEN [moduleTemplate EXCEPT !.Err = ErrTemplateUpdateNotAllowed]
      ELSE IF ~IsValidVersionChange(versionInTemplate.v, versionInStatus.v)
      THEN [moduleTemplate EXCEPT !.Err = ErrTemplateUpdateNotAllowed]
      ELSE moduleTemplate
    ELSE
      \* a generation skew is logged only
      moduleTemplate

\* CheckForOutdatedTemplate of the older package: the ModuleTemplateTO after
\* the call.
CheckForOutdatedTemplate(moduleTemplate, moduleStatus) ==
    IF moduleStatus.Template = Nil THEN moduleTemplate
    ELSE IF Deref(moduleTemplate.ModuleTemplate).generation
              # Deref(moduleStatus.Template).Generation
    THEN [moduleTemplate EXCEPT !.Outdated = TRUE]
    ELSE IF Deref(moduleTemplate.ModuleTemplate).channel # moduleStatus.Channel
    THEN
      LET descriptor == SpecGetDescriptor(Deref(moduleTemplate.ModuleTemplate))
          versionInTemplate == NewVersion(descriptor.Version)
          versionInStatus == NewVersion(moduleStatus.Version)
      IN
      IF descriptor.err # ErrNil THEN moduleTemplate
      ELSE IF ~versionInTemplate.ok THEN moduleTemplate
      ELSE IF ~versionInStatus.ok THEN moduleTemplate
      ELSE IF GreaterThan(versionInStatus.v, versionInTemplate.v) THEN moduleTemplate
      ELSE [moduleTemplate EXCEPT !.Outdated = TRUE]
    ELSE moduleTemplate

-----------------------------------------------------------------------------
(* A reconciliation pass: GetRegularTemplates *)

\* Kyma.GetAvailableModules: the modules the Kyma asks for, each with its
\* Valid flag.
GetAvailableModules(k) == k.modules

\* FilterTemplate: the ModuleTemplateInfo it returns and the cache after
\* descriptorProvider.Add.
FilterTemplate(cache, template, k) ==
    IF template.Err # ErrNil THEN [info |-> template, cache |-> cache]
    ELSE
      LET added == ProviderAdd(cache, Deref(template.ModuleTemplate))
          afterAdd == IF added.err # ErrNil
                      THEN [template EXCEPT !.Err = added.err]
                      ELSE template
      IN
      IF Deref(template.ModuleTemplate).internal /\ ~k.internal
      THEN [info |-> [afterAdd EXCEPT !.Err = ErrTemplateNotAllowed],
            cache |-> added.cache]
      ELSE IF Deref(template.ModuleTemplate).beta /\ ~k.beta
      THEN [info |-> [afterAdd EXCEPT !.Err = ErrTemplateNotAllowed],
            cache |-> added.cache]
      ELSE [info |-> afterAdd, cache |-> added.cache]

\* The loop over kyma.Status.Modules without the call of
\* checkValidTemplateUpdate.
checkModuleStatuses_Skip(cache, template, statuses, i, moduleName) == template

\* The loop over kyma.Status.Modules in GetRegularTemplates, from entry i on.
RECURSIVE checkModuleStatuses(_, _, _, _, _)
checkModuleStatuses(cache, template, statuses, i, moduleName) ==
    IF i > Len(statuses) THEN template
    ELSE IF moduleMatch(statuses[i], moduleName) /\ template.ModuleTemplate # Nil
    THEN checkModuleStatuses(cache,
                             checkValidTemplateUpdate(cache, template, statuses[i]),
                             statuses, i + 1, moduleName)
    ELSE checkModuleStatuses(cache, template, statuses, i + 1, moduleName)

\* The loop over the available modules without the check of module.Valid.
RECURSIVE regularTemplatesLoop_ValidIgnored(_, _, _, _, _, _)
regularTemplatesLoop_ValidIgnored(cat, orders, k, statuses, i, acc) ==
    LET modules == GetAvailableModules(k) IN
    IF i > Len(modules) THEN acc
    ELSE
      LET module == modules[i] IN
      IF module.Name \in DOMAIN acc.templates
      THEN regularTemplatesLoop_ValidIgnored(cat, orders, k, statuses, i + 1, acc)
      ELSE
        LET template == GetAndValidate(acc.cache, List(cat, orders[i]), module.Name,
                                       module.Channel, k.channel)
            filtered == FilterTemplate(acc.cache, template, k)
            checked == checkModuleStatuses(filtered.cache, template, statuses, 1,
                                           module.Name)
        IN
        regularTemplatesLoop_ValidIgnored(cat, orders, k, statuses, i + 1,
            [templates |-> (module.Name :> checked) @@ acc.templates,
             cache |-> filtered.cache,
             lists |-> Append(acc.lists, module.Name)])

\* The loop over the available modules that returns at the first entry with
\* an error.
RECURSIVE regularTemplatesLoop_AbortOnError(_, _, _, _, _, _)
regularTemplatesLoop_AbortOnError(cat, orders, k, statuses, i, acc) ==
    LET modules == GetAvailableModules(k) IN
    IF i > Len(modules) THEN acc
    ELSE
      LET module == modules[i] IN
      IF module.Name \in DOMAIN acc.templates
      THEN regularTemplatesLoop_AbortOnError(cat, orders, k, statuses, i + 1, acc)
      ELSE IF ~module.Valid
      THEN [acc EXCEPT !.templates =
                (module.Name :> [ModuleTemplate |-> Nil, Err |-> ErrTemplateNotValid,
                                 DesiredChannel |-> ""]) @@ @]
      ELSE
        LET template == GetAndValidate(acc.cache, List(cat, orders[i]), module.Name,
                                       module.Channel, k.channel)
            filtered == FilterTemplate(acc.cache, template, k)
            checked == checkModuleStatuses(filtered.cache, template, statuses, 1,
                                           module.Name)
            next == [templates |-> (module.Name :> checked) @@ acc.templates,
                     cache |-> filtered.cache,
                     lists |-> Append(acc.lists, module.Name)]
        IN
        IF checked.Err # ErrNil THEN next
        ELSE regularTemplatesLoop_AbortOnError(cat, orders, k, statuses, i + 1, next)

\* The loop over the available modules in GetRegularTemplates, from module i
\* on.  acc holds the result map, the descriptor cache and the modules List
\* was called for so far; orders[i] is
\* the order in which List returns the catalog to the lookup of module i.
\* The entry FilterTemplate stored is overwritten by the one GetAndValidate
\* returned, after the skew checks.
RECURSIVE regularTemplatesLoop(_, _, _, _, _, _)
regularTemplatesLoop(cat, orders, k, statuses, i, acc) ==
    LET modules == GetAvailableModules(k) IN
    IF i > Len(modules) THEN acc
    ELSE
      LET module == modules[i] IN
      IF module.Name \in DOMAIN acc.templates
      THEN regularTemplatesLoop(cat, orders, k, statuses, i + 1, acc)
      ELSE IF ~module.Valid
      THEN regularTemplatesLoop(cat, orders, k, statuses, i + 1,
             [acc EXCEPT !.templates =
                (module.Name :> [ModuleTemplate |-> Nil, Err |-> ErrTemplateNotValid,
                                 DesiredChannel |-> ""]) @@ @])
      ELSE
        LET template == GetAndValidate(acc.cache, List(cat, orders[i]), module.Name,
                                       module.Channel, k.channel)
            filtered == FilterTemplate(acc.cache, template, k)
            checked == checkModuleStatuses(filtered.cache, template, statuses, 1,
                                           module.Name)
        IN
        regularTemplatesLoop(cat, orders, k, statuses, i + 1,
            [templates |-> (module.Name :> checked) @@ acc.templates,
             cache |-> filtered.cache,
             lists |-> Append(acc.lists, module.Name)])

GetRegularTemplates(cache, cat, orders, k, statuses) ==
    regularTemplatesLoop(cat, orders, k, statuses, 1,
                         [templates |-> <<>>, cache |-> cache, lists |-> <<>>])

-----------------------------------------------------------------------------
(* A pass of the older package: GetTemplates *)

\* The loop over kyma.Spec.Modules in GetTemplates, from module i on; a later
\* module of the same name overwrites the entry.
RECURSIVE getTemplatesLoop(_, _, _, _, _, _)
getTemplatesLoop(cat, remote, orders, k, i, acc) ==
    IF i > Len(k.modules) THEN acc
    ELSE
      LET module == k.modules[i]
          template ==
            IF module.RemoteModuleTemplateRef = ""
            THEN WithContext(List(cat, orders[i]), module, k.channel)
            ELSE IF k.syncEnabled
            THEN WithContext(remote,
                             [module EXCEPT !.Name = module.RemoteModuleTemplateRef],
                             k.channel)
            ELSE [ModuleTemplate |-> Nil, Outdated |-> FALSE,
                  Err |-> ErrInvalidRemoteModuleConfiguration, DesiredChannel |-> ""]
      IN
      getTemplatesLoop(cat, remote, orders, k, i + 1,
                       (module.Name :> template) @@ acc)

\* The modules GetTemplates looks a template up for, on the control plane or
\* on the runtime cluster: all but those with a remote reference while sync
\* is off.
getTemplatesLists(k) ==
    LET looked == SelectSeq(k.modules,
                            LAMBDA module : module.RemoteModuleTemplateRef = ""
                                            \/ k.syncEnabled)
    IN [i \in DOMAIN looked |-> looked[i].Name]

DetermineTemplatesVisibility(k, result) ==
    [moduleName \in DOMAIN result |->
       LET moduleTemplate == result[moduleName] IN
       IF moduleTemplate.Err # ErrNil THEN moduleTemplate
       ELSE IF \/ Deref(moduleTemplate.ModuleTemplate).internal /\ ~k.internal
               \/ Deref(moduleTemplate.ModuleTemplate).beta /\ ~k.beta
       THEN [moduleTemplate EXCEPT !.Err = ErrTemplateNotAllowed]
       ELSE moduleTemplate]

\* The loop over kyma.Status.Modules in CheckForOutdatedTemplates for one
\* entry of the map: the value of the loop's own copy of the entry.
RECURSIVE outdatedLoop(_, _, _, _)
outdatedLoop(moduleTemplate, statuses, i, moduleName) ==
    IF i > Len(statuses) THEN moduleTemplate
    ELSE IF statuses[i].FQDN = moduleName /\ moduleTemplate.ModuleTemplate # Nil
    THEN outdatedLoop(CheckForOutdatedTemplate(moduleTemplate, statuses[i]),
                      statuses, i + 1, moduleName)
    ELSE outdatedLoop(moduleTemplate, statuses, i + 1, moduleName)

\* CheckForOutdatedTemplates: the map after the call.  The map holds
\* ModuleTemplateTO values and the loop hands CheckForOutdatedTemplate the
\* address of its own copy (moduleTemplate := moduleTemplate), which is never
\* stored back: the map is left as it was.
CheckForOutdatedTemplates(statuses, result) ==
    LET copies == [moduleName \in DOMAIN result |->
                     outdatedLoop(result[moduleName], statuses, 1, moduleName)]
    IN result

GetTemplates(cat, remote, orders, k, statuses) ==
    CheckForOutdatedTemplates(statuses,
        DetermineTemplatesVisibility(k,
            getTemplatesLoop(cat, remote, orders, k, 1, <<>>)))

-----------------------------------------------------------------------------
(* Values the specifications draw from *)

Namespace == "kcp"
TemplateName(i) == "t" \o ToString(i)

Undecodable == [decodable |-> FALSE, name |-> "", version |-> ""]
Raw(name, version) == [decodable |-> TRUE, name |-> name, version |-> version]

NewTemplate(i, label, channel, mandatory, internal, beta, generation, descriptor) ==
    [name |-> TemplateName(i), namespace |-> Namespace, label |-> label,
     channel |-> channel, mandatory |-> mandatory, internal |-> internal,
     beta |-> beta, generation |-> generation, descriptor |-> descriptor]

\* All orders in which List may return n templates.
Orders(n) ==
    {o \in [1..n -> 1..n] : \A i, j \in 1..n : i # j => o[i] # o[j]}

NoKyma == [modules |-> <<>>, channel |-> "", internal |-> FALSE, beta |-> FALSE,
           syncEnabled |-> FALSE]

-----------------------------------------------------------------------------
(* SpecLookup: single lookups over bounded catalogs *)

\* What a template of a lookup catalog may look like, apart from its name:
\* label, channel, mandatory flag and raw descriptor.
LookupShapes ==
    {s \in [label : {"", "mod"}, channel : {"", "regular", "fast"},
            mandatory : BOOLEAN,
            descriptor : {Undecodable, Raw("fqdn", "1.0.0"), Raw("mod", "1.0.0")}] :
        /\ s.mandatory =>
             s.channel = "regular" /\ s.label = "mod" /\ s.descriptor.name = "fqdn"
        /\ s.channel # "regular" => s.label = "mod" /\ s.descriptor.name = "fqdn"
        /\ s.label = "" => s.descriptor.name = "fqdn"}

LookupCatalogs ==
    UNION {{[i \in 1..n |->
               NewTemplate(i, c[i].label, c[i].channel, c[i].mandatory, FALSE, FALSE,
                           1, c[i].descriptor)] :
            c \in [1..n -> LookupShapes]} : n \in 0..MaxTemplates}

LookupNames == {"mod", "fqdn", "t1", "kcp/t1"}
LookupChannels == {"", "regular"}
LookupDefaultChannels == {"", "fast"}

InitLookup ==
    /\ catalog \in LookupCatalogs
    /\ remoteCatalog = <<>>
    /\ kyma = NoKyma
    /\ kymaStatus = <<>>
    /\ templates = <<>>
    /\ lastOp = "init"
    /\ descriptorCache = <<>>
    /\ listCalls = <<>>
    /\ lookup = Nil
    /\ handler = Nil
    /\ queue = Nil
    /\ Descriptor = Nil
    /\ callers = <<>>
    /\ call = Nil
    /\ guard = Nil

\* What a filter loop ended with: its error and the names of the templates
\* in filteredTemplates.
FilterResult(r) ==
    [err |-> r.err, names |-> {r.filtered[i].name : i \in DOMAIN r.filtered},
     count |-> Len(r.filtered)]

\* One call of GetAndValidate and one of the older WithContext for the same
\* module, channel and default channel; found, filter and toFilter keep what
\* getTemplate returned and what the two filter loops collected.
Lookup ==
    \E name \in LookupNames, channel \in LookupChannels,
       defaultChannel \in LookupDefaultChannels, order \in Orders(Len(catalog)) :
      /\ lookup = Nil
      /\ lookup' = Ptr([name |-> name, channel |-> channel,
                        defaultChannel |-> defaultChannel,
                        info |-> GetAndValidate(descriptorCache, List(catalog, order),
                                                name, channel, defaultChannel),
                        to |-> WithContext(List(catalog, order),
                                           [Name |-> name, Channel |-> channel],
                                           defaultChannel),
                        found |-> getTemplate(descriptorCache, List(catalog, order),
                                              name,
                                              getDesiredChannel(channel, defaultChannel)),
                        filter |-> FilterResult(
                                     filterTemplates(descriptorCache,
                                                     List(catalog, order), 1, name,
                                                     getDesiredChannel(channel,
                                                                       defaultChannel),
                                                     <<>>)),
                        toFilter |-> FilterResult(
                                       channelFilterTemplates(
                                         List(catalog, order), 1, name,
                                         getDesiredChannel(channel, defaultChannel),
                                         <<>>))])
      /\ lastOp' = "Lookup"
      /\ listCalls' = <<name, name>>
      /\ UNCHANGED <<catalog, remoteCatalog, kyma, kymaStatus, templates,
                     descriptorCache, guard, handler, queue,
                     Descriptor, callers, call>>

NextLookup == Lookup

SpecLookup == InitLookup /\ [][NextLookup]_vars

-----------------------------------------------------------------------------
(* SpecGuard: single skew checks over bounded templates and statuses *)

GuardChannels == {"regular", "fast"}

GuardTemplates ==
    {NewTemplate(1, "mod", channel, FALSE, FALSE, FALSE, generation, descriptor) :
       channel \in GuardChannels, generation \in 1..MaxGeneration,
       descriptor \in {Undecodable} \cup {Raw("fqdn", v) : v \in VersionStrings}}

GuardStatuses ==
    {[Name |-> "mod", FQDN |-> "fqdn", Channel |-> channel, Version |-> version,
      Template |-> tracking] :
       channel \in GuardChannels, version \in VersionStrings,
       tracking \in {Nil} \cup {Ptr([Generation |-> g]) : g \in 1..MaxGeneration}}

InitGuard ==
    /\ catalog = <<>>
    /\ remoteCatalog = <<>>
    /\ kyma = NoKyma
    /\ kymaStatus = <<>>
    /\ templates = <<>>
    /\ lastOp = "init"
    /\ descriptorCache = <<>>
    /\ listCalls = <<>>
    /\ lookup = Nil
    /\ handler = Nil
    /\ queue = Nil
    /\ Descriptor = Nil
    /\ callers = <<>>
    /\ call = Nil
    /\ \E template \in GuardTemplates, moduleStatus \in GuardStatuses,
          err \in {ErrNil, ErrTemplateUpdateNotAllowed} :
         guard = [moduleTemplate |-> [ModuleTemplate |-> Ptr(template), Err |-> err,
                                      DesiredChannel |-> template.channel],
                  moduleStatus |-> moduleStatus,
                  result |-> Nil,
                  outdated |-> Nil]

\* One call of checkValidTemplateUpdate on the drawn template and status.
CheckUpdate ==
    /\ guard # Nil
    /\ guard.result = Nil
    /\ guard' = [guard EXCEPT !.result =
                   Ptr(checkValidTemplateUpdate(descriptorCache, guard.moduleTemplate,
                                                guard.moduleStatus))]
    /\ lastOp' = "CheckUpdate"
    /\ UNCHANGED <<catalog, remoteCatalog, kyma, kymaStatus, templates,
                   descriptorCache, listCalls, lookup, handler, queue,
                   Descriptor, callers, call>>

\* One call of the older CheckForOutdatedTemplate on the drawn template and
\* status; the ModuleTemplateTO comes from a lookup, so it carries no error and
\* is not yet outdated.
CheckOutdated ==
    /\ guard # Nil
    /\ guard.outdated = Nil
    /\ guard' = [guard EXCEPT !.outdated =
                   Ptr(CheckForOutdatedTemplate(
                         [ModuleTemplate |-> guard.moduleTemplate.ModuleTemplate,
                          Outdated |-> FALSE, Err |-> ErrNil,
                          DesiredChannel |-> guard.moduleTemplate.DesiredChannel],
                         guard.moduleStatus))]
    /\ lastOp' = "CheckOutdated"
    /\ UNCHANGED <<catalog, remoteCatalog, kyma, kymaStatus, templates,
                   descriptorCache, listCalls, lookup, handler, queue,
                   Descriptor, callers, call>>

NextGuard == CheckUpdate \/ CheckOutdated

SpecGuard == InitGuard /\ [][NextGuard]_vars

-----------------------------------------------------------------------------
(* Spec: reconciliation passes of one Kyma while the catalog's versions and
   the module's channel change *)

\* The installer, which consumes the result of a pass: the ModuleStatus it
\* records for a module from the template it applied.
NewModuleStatus(moduleName, template) ==
    LET descriptor == SpecGetDescriptor(template) IN
    [Name |-> moduleName, FQDN |-> descriptor.Name, Channel |-> template.channel,
     Version |-> descriptor.Version,
     Template |-> Ptr([Generation |-> template.generation])]

\* The installer applies an entry that carries a template and no error.
Installable(info) ==
    /\ info.Err = ErrNil
    /\ info.ModuleTemplate # Nil
    /\ SpecGetDescriptor(Deref(info.ModuleTemplate)).err = ErrNil

\* The status list after the installer handled one module: the module's entry
\* is overwritten (or added) after a successful install, and left alone
\* otherwise.
UpdateModuleStatus(statuses, moduleName, info) ==
    IF ~Installable(info) THEN statuses
    ELSE
      LET entry == NewModuleStatus(moduleName, Deref(info.ModuleTemplate)) IN
      IF \E i \in DOMAIN statuses : statuses[i].Name = moduleName
      THEN [i \in DOMAIN statuses |->
              IF statuses[i].Name = moduleName THEN entry ELSE statuses[i]]
      ELSE Append(statuses, entry)

\* The installer over the modules of the Kyma, from module i on.
RECURSIVE UpdateModuleStatuses(_, _, _, _)
UpdateModuleStatuses(statuses, k, result, i) ==
    IF i > Len(k.modules) THEN statuses
    ELSE UpdateModuleStatuses(
           UpdateModuleStatus(statuses, k.modules[i].Name, result[k.modules[i].Name]),
           k, result, i + 1)

MainVersions == {"1.0.0", "2.0.0"}
MainModuleNames == {"mod", "fqdn"}
MainChannels == {"", "fast"}

Module(name, channel, valid) ==
    [Name |-> name, Channel |-> channel, Valid |-> valid,
     RemoteModuleTemplateRef |-> ""]

\* The Kyma asks for one module, alone, next to an entry that failed
\* validation, or twice.
MainModules ==
    UNION {{<<Module(name, channel, TRUE)>>,
            <<Module(name, channel, TRUE), Module("other", "", FALSE)>>,
            <<Module(name, channel, TRUE), Module(name, "fast", TRUE)>>} :
           name \in MainModuleNames, channel \in MainChannels}

\* The catalog holds the module's templates of the channels regular and fast;
\* the one of fast may be marked internal or beta.
MainCatalogs ==
    {<<NewTemplate(1, "mod", "regular", FALSE, FALSE, FALSE, 1, Raw("fqdn", v1)),
       NewTemplate(2, "mod", "fast", FALSE, flags[1], flags[2], 1, Raw("fqdn", v2))>> :
       v1 \in MainVersions, v2 \in MainVersions,
       flags \in {<<FALSE, FALSE>>, <<TRUE, FALSE>>, <<FALSE, TRUE>>}}

Init ==
    /\ catalog \in MainCatalogs
    /\ remoteCatalog = <<>>
    /\ \E modules \in MainModules, labelled \in BOOLEAN :
         kyma = [modules |-> modules, channel |-> DefaultChannel,
                 internal |-> labelled, beta |-> labelled, syncEnabled |-> FALSE]
    /\ kymaStatus = <<>>
    /\ templates = <<>>
    /\ lastOp = "init"
    /\ descriptorCache = <<>>
    /\ listCalls = <<>>
    /\ lookup = Nil
    /\ handler = Nil
    /\ queue = Nil
    /\ Descriptor = Nil
    /\ callers = <<>>
    /\ call = Nil
    /\ guard = Nil

\* One reconciliation pass: GetRegularTemplates, then the installer on its
\* result.
Reconcile ==
    \E orders \in [1..Len(kyma.modules) -> Orders(Len(catalog))] :
      LET r == GetRegularTemplates(descriptorCache, catalog, orders, kyma, kymaStatus) IN
      /\ templates' = r.templates
      /\ descriptorCache' = r.cache
      /\ kymaStatus' = UpdateModuleStatuses(kymaStatus, kyma, r.templates, 1)
      /\ lastOp' = "Reconcile"
      /\ listCalls' = r.lists
      /\ UNCHANGED <<catalog, remoteCatalog, kyma, lookup, guard, handler, queue,
                     Descriptor, callers, call>>

\* The author of a template publishes another version in it; the object store
\* raises the template's generation.
AuthorSetVersion ==
    \E i \in DOMAIN catalog, version \in MainVersions :
      /\ catalog[i].generation < MaxGeneration
      /\ version # catalog[i].descriptor.version
      /\ catalog' = [catalog EXCEPT ![i].descriptor = Raw("fqdn", version),
                                    ![i].generation = @ + 1]
      /\ lastOp' = "AuthorSetVersion"
      /\ UNCHANGED <<remoteCatalog, kyma, kymaStatus, templates, descriptorCache,
                     listCalls, lookup, guard, handler, queue,
                     Descriptor, callers, call>>

\* The tenant sets the channel of the module.
TenantSetChannel ==
    \E channel \in MainChannels :
      /\ channel # kyma.modules[1].Channel
      /\ kyma' = [kyma EXCEPT !.modules[1].Channel = channel]
      /\ lastOp' = "TenantSetChannel"
      /\ UNCHANGED <<catalog, remoteCatalog, kymaStatus, templates, descriptorCache,
                     listCalls, lookup, guard, handler, queue,
                     Descriptor, callers, call>>

Next == Reconcile \/ AuthorSetVersion \/ TenantSetChannel

Spec == Init /\ [][Next]_vars

-----------------------------------------------------------------------------
(* SpecChannel: single passes of the older package over bounded catalogs,
   Kymas and recorded statuses *)

ChannelVersions == {"1.0.0", "2.0.0"}

\* The control-plane catalog holds the module's template of the channel
\* regular, alone or next to the one of fast, which may be internal or beta.
ChannelCatalogs ==
    UNION {{<<NewTemplate(1, "mod", "regular", FALSE, FALSE, FALSE, generation,
                          Raw("fqdn", version))>>,
            <<NewTemplate(1, "mod", "regular", FALSE, FALSE, FALSE, generation,
                          Raw("fqdn", version)),
              NewTemplate(2, "mod", "fast", FALSE, flags[1], flags[2], 1,
                          Raw("fqdn", "2.0.0"))>>} :
           generation \in 1..MaxGeneration, version \in ChannelVersions,
           flags \in {<<FALSE, FALSE>>, <<TRUE, FALSE>>, <<FALSE, TRUE>>}}

\* The runtime cluster holds one template of its own.
ChannelRemoteCatalog ==
    <<NewTemplate(1, "", "regular", FALSE, FALSE, FALSE, 1, Raw("remote", "1.0.0"))>>

ChannelModules ==
    {[Name |-> name, Channel |-> channel, Valid |-> TRUE,
      RemoteModuleTemplateRef |-> ref] :
       name \in {"mod", "fqdn"}, channel \in {"", "fast"}, ref \in {"", "t1"}}

\* What the installer recorded for the module at an earlier pass, if anything.
ChannelStatuses(moduleName) ==
    {<<>>} \cup
    {<<[Name |-> moduleName, FQDN |-> "fqdn", Channel |-> channel,
        Version |-> version, Template |-> Ptr([Generation |-> generation])]>> :
       channel \in {"regular", "fast"}, version \in ChannelVersions,
       generation \in 1..MaxGeneration}

InitChannel ==
    /\ catalog \in ChannelCatalogs
    /\ remoteCatalog = ChannelRemoteCatalog
    /\ \E module \in ChannelModules, labelled \in BOOLEAN, syncEnabled \in BOOLEAN :
         /\ module.RemoteModuleTemplateRef = "" => ~syncEnabled
         /\ kyma = [modules |-> <<module>>, channel |-> DefaultChannel,
                    internal |-> labelled, beta |-> labelled,
                    syncEnabled |-> syncEnabled]
         /\ kymaStatus \in ChannelStatuses(module.Name)
    /\ templates = <<>>
    /\ lastOp = "init"
    /\ descriptorCache = <<>>
    /\ listCalls = <<>>
    /\ lookup = Nil
    /\ handler = Nil
    /\ queue = Nil
    /\ Descriptor = Nil
    /\ callers = <<>>
    /\ call = Nil
    /\ guard = Nil

\* One call of the older GetTemplates.
GetTemplatesPass ==
    \E orders \in [1..Len(kyma.modules) -> Orders(Len(catalog))] :
      /\ lastOp = "init"
      /\ templates' = GetTemplates(catalog, remoteCatalog, orders, kyma, kymaStatus)
      /\ lastOp' = "GetTemplates"
      /\ listCalls' = getTemplatesLists(kyma)
      /\ UNCHANGED <<catalog, remoteCatalog, kyma, kymaStatus, descriptorCache,
                     lookup, guard, handler, queue,
                     Descriptor, callers, call>>

NextChannel == GetTemplatesPass

SpecChannel == InitChannel /\ [][NextChannel]_vars

-----------------------------------------------------------------------------
(* SpecPass: calls of GetRegularTemplates over bounded catalogs, Kymas,
   recorded statuses and descriptor caches *)

PassVersions == {"1.0.0", "2.0.0", "bad"}

\* The module's templates of the channels regular and fast, alone or with a
\* second template of the module in regular.
PassCatalogs ==
    UNION {{<<NewTemplate(1, "mod", "regular", FALSE, FALSE, FALSE, 1, Raw("fqdn", v1)),
              NewTemplate(2, "mod", "fast", FALSE, FALSE, FALSE, 1, Raw("fqdn", v2))>>,
            <<NewTemplate(1, "mod", "regular", FALSE, FALSE, FALSE, 1, Raw("fqdn", v1)),
              NewTemplate(2, "mod", "fast", FALSE, FALSE, FALSE, 1, Raw("fqdn", v2)),
              NewTemplate(3, "mod", "regular", FALSE, FALSE, FALSE, 1,
                          Raw("fqdn", "1.0.0"))>>} :
           v1 \in {"1.0.0"}, v2 \in PassVersions}

\* The Kyma asks for the module, alone, after an entry that failed
\* validation and is named like the first template of the catalog, or after
\* the module's other name in the other channel.
PassModules ==
    UNION {{<<Module(name, channel, TRUE)>>,
            <<Module(TemplateName(1), "", FALSE), Module(name, channel, TRUE)>>,
            <<Module(CHOOSE n \in MainModuleNames : n # name,
                     CHOOSE c \in MainChannels : c # channel, TRUE),
              Module(name, channel, TRUE)>>} :
           name \in MainModuleNames, channel \in MainChannels}

\* What the status may record for the module ...
PassOwnStatuses(moduleName) ==
    {[Name |-> moduleName, FQDN |-> "fqdn", Channel |-> channel, Version |-> version,
      Template |-> tracking] :
       channel \in GuardChannels, version \in PassVersions,
       tracking \in {Nil, Ptr([Generation |-> 1])}}

\* ... and for another module, which the Kyma no longer asks for.
PassOtherStatuses ==
    {[Name |-> "other", FQDN |-> "other-fqdn", Channel |-> "fast",
      Version |-> "2.0.0", Template |-> Ptr([Generation |-> 1])]}

PassStatuses(moduleName) ==
    {<<>>}
      \cup {<<own>> : own \in PassOwnStatuses(moduleName)}
      \cup {<<other>> : other \in PassOtherStatuses}
      \cup {<<other, own>> : other \in PassOtherStatuses,
                             own \in PassOwnStatuses(moduleName)}

\* The descriptor cache after Add of every template of the catalog, from
\* template i on.
RECURSIVE CacheOf(_, _, _)
CacheOf(cat, i, cache) ==
    IF i > Len(cat) THEN cache
    ELSE CacheOf(cat, i + 1, ProviderAdd(cache, cat[i]).cache)

InitPass ==
    /\ catalog \in PassCatalogs
    /\ remoteCatalog = <<>>
    /\ \E modules \in PassModules :
         /\ kyma = [modules |-> modules, channel |-> DefaultChannel,
                    internal |-> FALSE, beta |-> FALSE, syncEnabled |-> FALSE]
         /\ kymaStatus \in PassStatuses(modules[Len(modules)].Name)
    /\ templates = <<>>
    /\ lastOp = "init"
    /\ descriptorCache \in {<<>>, CacheOf(catalog, 1, <<>>)}
    /\ listCalls = <<>>
    /\ lookup = Nil
    /\ handler = Nil
    /\ queue = Nil
    /\ Descriptor = Nil
    /\ callers = <<>>
    /\ call = Nil
    /\ guard = Nil

\* A pass that records what it resolved in the status of the Kyma, as the
\* installer does after it.
RegularPass_StatusWritten ==
    \E orders \in [1..Len(kyma.modules) -> Orders(Len(catalog))] :
      LET r == GetRegularTemplates(descriptorCache, catalog, orders, kyma, kymaStatus) IN
      /\ templates' = r.templates
      /\ descriptorCache' = r.cache
      /\ listCalls' = r.lists
      /\ lastOp' = "RegularPass"
      /\ kymaStatus' = UpdateModuleStatuses(kymaStatus, kyma, r.templates, 1)
      /\ UNCHANGED <<catalog, remoteCatalog, kyma, lookup, guard, handler, queue,
                     Descriptor, callers, call>>

\* One call of GetRegularTemplates; it may be called again.
RegularPass ==
    \E orders \in [1..Len(kyma.modules) -> Orders(Len(catalog))] :
      LET r == GetRegularTemplates(descriptorCache, catalog, orders, kyma, kymaStatus) IN
      /\ templates' = r.templates
      /\ descriptorCache' = r.cache
      /\ listCalls' = r.lists
      /\ lastOp' = "RegularPass"
      /\ UNCHANGED <<catalog, remoteCatalog, kyma, kymaStatus, lookup, guard,
                     handler, queue,
                     Descriptor, callers, call>>

NextPass == RegularPass

SpecPass == InitPass /\ [][NextPass]_vars

-----------------------------------------------------------------------------
(* The owner change propagator: RestrictedEnqueueRequestForOwner            *)

\* The bound on the owner references of an event's object.
MaxRefs == 2
MaxCallers == 2

ErrNoUniqueKind == "ErrNoUniqueKind"
\* The error of scheme.ObjectKinds for a type the scheme does not know.
ErrNotRegistered == "ErrNotRegistered"
\* The error of schema.ParseGroupVersion.
ErrUnexpectedGroupVersion == "ErrUnexpectedGroupVersion"
\* The error of RESTMapper.RESTMapping for a kind and version it has no
\* mapping for.
ErrNoKindMatch == "ErrNoKindMatch"

RESTScopeNameRoot == "root"
RESTScopeNameNamespace == "namespace"

\* The zero value of schema.GroupKind.
EmptyGroupKind == [Group |-> "", Kind |-> ""]

\* scheme.ObjectKinds: the kinds the scheme registers for the owner type, an
\* error for a type it registers none for.
ObjectKinds(scheme, ownerType) ==
    IF ownerType \notin DOMAIN scheme
    THEN [kinds |-> <<>>, err |-> ErrNotRegistered]
    ELSE [kinds |-> scheme[ownerType], err |-> ErrNil]

\* parseOwnerTypeGroupKind: the group and kind it leaves in e.groupKind and
\* the error it returns.
parseOwnerTypeGroupKind(e, scheme) ==
    LET r == ObjectKinds(scheme, e.OwnerType) IN
    IF r.err # ErrNil THEN [groupKind |-> e.groupKind, err |-> r.err]
    ELSE IF Len(r.kinds) # 1 THEN [groupKind |-> e.groupKind, err |-> ErrNoUniqueKind]
    ELSE [groupKind |-> [Group |-> r.kinds[1].Group, Kind |-> r.kinds[1].Kind],
          err |-> ErrNil]

\* schema.ParseGroupVersion of an apiVersion, which is held as its segments
\* between the slashes: "" and "/" are the empty GroupVersion, no slash is a
\* version without group, one slash is group/version, more is an error.
ParseGroupVersion(gv) ==
    IF gv = <<"">> \/ gv = <<"", "">>
    THEN [err |-> ErrNil, Group |-> "", Version |-> ""]
    ELSE IF Len(gv) = 1 THEN [err |-> ErrNil, Group |-> "", Version |-> gv[1]]
    ELSE IF Len(gv) = 2 THEN [err |-> ErrNil, Group |-> gv[1], Version |-> gv[2]]
    ELSE [err |-> ErrUnexpectedGroupVersion, Group |-> "", Version |-> ""]

\* mapper.RESTMapping(e.groupKind, version): the scope of the owner kind, or
\* an error when the mapper has no mapping of the kind at that version; without
\* a version the mapper falls back on its default version.
RESTMapping(mapper, groupKind, version) ==
    IF version # "" /\ version \notin mapper.versions
    THEN [err |-> ErrNoKindMatch, scope |-> ""]
    ELSE [err |-> ErrNil, scope |-> mapper.scope]

\* unstructured.NestedString(component, "status", "state"): the value and
\* whether the field was found.
NestedString(object) ==
    IF object.state = Nil THEN [val |-> "", ok |-> FALSE]
    ELSE [val |-> Deref(object.state), ok |-> TRUE]

\* metav1.GetControllerOf: the first owner reference marked as controller.
GetControllerOf(object) ==
    LET marked == {i \in DOMAIN object.OwnerReferences :
                     object.OwnerReferences[i].Controller}
    IN
    IF marked = {} THEN Nil
    ELSE Ptr(object.OwnerReferences[CHOOSE i \in marked : \A j \in marked : i <= j])

\* getOwnersReferences that takes all owner references whatever IsController
\* says.
getOwnersReferences_All(e, object) == object.OwnerReferences

getOwnersReferences(e, object) ==
    IF ~e.IsController THEN object.OwnerReferences
    ELSE IF GetControllerOf(object) # Nil THEN <<Deref(GetControllerOf(object))>>
    ELSE <<>>

\* A request that also tells the references of one owner apart.
NewRequest_PerReference(ref) ==
    [Name |-> ref.Name, Namespace |-> "", APIVersion |-> ref.APIVersion]

\* The request built for a matching owner reference before the scope is
\* known.
NewRequest(ref) == [Name |-> ref.Name, Namespace |-> ""]

\* result[request] = ref
SetResult(result, request, ref) ==
    [r \in DOMAIN result \cup {request} |-> IF r = request THEN ref ELSE result[r]]

\* getOwnerReconcileRequestFromOwnerReference that compares the kind of the
\* reference and not its group.
getOwnerReconcileRequestFromOwnerReference_KindOnly(e, oldIfAny, object, result, ref, refGV) ==
    IF ref.Kind # e.groupKind.Kind THEN result
    ELSE
      LET mapping == RESTMapping(Deref(e.mapper), e.groupKind, refGV.Version)
          request == IF mapping.scope # RESTScopeNameRoot
                     THEN [NewRequest(ref) EXCEPT !.Namespace = object.Namespace]
                     ELSE NewRequest(ref)
      IN
      IF mapping.err # ErrNil THEN result
      ELSE IF oldIfAny # Nil
      THEN
        LET oldState == NestedString(Deref(oldIfAny))
            newState == NestedString(object)
        IN
        IF oldState.val # newState.val THEN SetResult(result, request, ref)
        ELSE result
      ELSE SetResult(result, request, ref)

\* getOwnerReconcileRequestFromOwnerReference without the comparison of
\* status.state.
getOwnerReconcileRequestFromOwnerReference_NoStateFilter(e, oldIfAny, object, result, ref, refGV) ==
    IF ref.Kind # e.groupKind.Kind \/ refGV.Group # e.groupKind.Group THEN result
    ELSE
      LET mapping == RESTMapping(Deref(e.mapper), e.groupKind, refGV.Version)
          request == IF mapping.scope # RESTScopeNameRoot
                     THEN [NewRequest(ref) EXCEPT !.Namespace = object.Namespace]
                     ELSE NewRequest(ref)
      IN
      IF mapping.err # ErrNil THEN result
      ELSE SetResult(result, request, ref)

\* getOwnerReconcileRequestFromOwnerReference: the result map after it.
getOwnerReconcileRequestFromOwnerReference(e, oldIfAny, object, result, ref, refGV) ==
    IF ref.Kind # e.groupKind.Kind \/ refGV.Group # e.groupKind.Group THEN result
    ELSE
      LET mapping == RESTMapping(Deref(e.mapper), e.groupKind, refGV.Version)
          request == IF mapping.scope # RESTScopeNameRoot
                     THEN [NewRequest(ref) EXCEPT !.Namespace = object.Namespace]
                     ELSE NewRequest(ref)
      IN
      IF mapping.err # ErrNil THEN result
      ELSE IF oldIfAny # Nil
      THEN
        LET oldState == NestedString(Deref(oldIfAny))
            newState == NestedString(object)
        IN
        IF oldState.val # newState.val THEN SetResult(result, request, ref)
        ELSE result
      ELSE SetResult(result, request, ref)

\* A loop that handles reference i and leaves the references after it.
ownerReferencesLoop_FirstOnly(e, oldIfAny, object, refs, i, result) ==
    IF i > Len(refs) THEN result
    ELSE
      LET refGV == ParseGroupVersion(refs[i].APIVersion) IN
      IF refGV.err # ErrNil THEN result
      ELSE getOwnerReconcileRequestFromOwnerReference(e, oldIfAny, object, result,
                                                      refs[i], refGV)

\* The loop of getOwnerReconcileRequest over refs from reference i on; it
\* returns at an apiVersion that does not parse and keeps what result holds.
RECURSIVE ownerReferencesLoop(_, _, _, _, _, _)
ownerReferencesLoop(e, oldIfAny, object, refs, i, result) ==
    IF i > Len(refs) THEN result
    ELSE
      LET refGV == ParseGroupVersion(refs[i].APIVersion) IN
      IF refGV.err # ErrNil THEN result
      ELSE ownerReferencesLoop(e, oldIfAny, object, refs, i + 1,
             getOwnerReconcileRequestFromOwnerReference(e, oldIfAny, object, result,
                                                        refs[i], refGV))

getOwnerReconcileRequest(e, oldIfAny, object, result) ==
    ownerReferencesLoop(e, oldIfAny, object, getOwnersReferences(e, object), 1, result)

\* for req := range reqs { q.Add(req) }: the bag of the requests q.Add was
\* called with.
queueAdds(reqs) == SetToBag(DOMAIN reqs)

-----------------------------------------------------------------------------
(* SpecOwner: setup of one handler and one event callback over bounded
   objects.  The handler keeps nothing between callbacks (reqs is a map made
   in each callback), so a behaviour holds one callback. *)

OwnerType == "*ReplicaSet"

\* The scheme knows the owner type under one kind, under two, or not at all.
Schemes ==
    {(OwnerType :> <<[Group |-> "apps", Version |-> "v1", Kind |-> "ReplicaSet"]>>),
     (OwnerType :> <<[Group |-> "apps", Version |-> "v1", Kind |-> "ReplicaSet"],
                     [Group |-> "extensions", Version |-> "v1beta1",
                      Kind |-> "ReplicaSet"]>>),
     <<>>}

\* The mapper knows the owner kind as namespaced or cluster-scoped, at both
\* versions or at v1 only.
Mappers ==
    {[scope |-> scope, versions |-> versions] :
       scope \in {RESTScopeNameNamespace, RESTScopeNameRoot},
       versions \in {{"v1", "v2"}, {"v1"}}}

OwnerReference(apiVersion, kind, name) ==
    [APIVersion |-> apiVersion, Kind |-> kind, Name |-> name, Controller |-> FALSE]

\* Owner references: the owner "a" at two versions, another owner "b",
\* references of another group and of another kind, and one whose apiVersion
\* has two slashes.
OwnerReferences ==
    {OwnerReference(<<"apps", "v1">>, "ReplicaSet", "a"),
     OwnerReference(<<"apps", "v2">>, "ReplicaSet", "a"),
     OwnerReference(<<"apps", "v1">>, "ReplicaSet", "b"),
     OwnerReference(<<"batch", "v1">>, "ReplicaSet", "a"),
     OwnerReference(<<"apps", "v1">>, "Job", "a"),
     OwnerReference(<<"apps", "v1", "x">>, "ReplicaSet", "a")}

\* The lists of at most MaxRefs owner references, none or one of them marked
\* as controller.
OwnerReferenceLists ==
    UNION {{[i \in 1..n |-> [refs[i] EXCEPT !.Controller = (i = c)]] :
              refs \in [1..n -> OwnerReferences], c \in 0..n} : n \in 0..MaxRefs}

\* status.state of an object: absent or a string.
States == {Nil, Ptr("Ready"), Ptr("Error")}

ObjectNamespace == "kyma-system"

Objects ==
    {[Namespace |-> ObjectNamespace, OwnerReferences |-> refs, state |-> state] :
       refs \in OwnerReferenceLists, state \in States}

\* The objects of events without an old object, whose state is not read.
ObjectsWithoutOld == {o \in Objects : o.state = Nil}

InitOwner ==
    /\ catalog = <<>>
    /\ remoteCatalog = <<>>
    /\ kyma = NoKyma
    /\ kymaStatus = <<>>
    /\ templates = <<>>
    /\ lastOp = "init"
    /\ descriptorCache = <<>>
    /\ listCalls = <<>>
    /\ lookup = Nil
    /\ guard = Nil
    /\ \E isController \in BOOLEAN :
         handler = [OwnerType |-> OwnerType, IsController |-> isController,
                    groupKind |-> EmptyGroupKind, mapper |-> Nil, scheme |-> Nil,
                    schemeErr |-> Nil]
    /\ queue = Nil
    /\ Descriptor = Nil
    /\ callers = <<>>
    /\ call = Nil

NotOwner == <<catalog, remoteCatalog, kyma, kymaStatus, templates, descriptorCache,
              listCalls, lookup, guard, Descriptor, callers, call>>

\* InjectScheme, called once by the controller; scheme keeps what it was
\* called with and schemeErr what it returned.
InjectScheme ==
    /\ handler.schemeErr = Nil
    /\ \E scheme \in Schemes :
         LET r == parseOwnerTypeGroupKind(handler, scheme) IN
         handler' = [handler EXCEPT !.groupKind = r.groupKind,
                                    !.scheme = Ptr(scheme),
                                    !.schemeErr = Ptr(r.err)]
    /\ lastOp' = "InjectScheme"
    /\ UNCHANGED queue
    /\ UNCHANGED NotOwner

\* InjectMapper, called once by the controller.
InjectMapper ==
    /\ handler.mapper = Nil
    /\ \E m \in Mappers : handler' = [handler EXCEPT !.mapper = Ptr(m)]
    /\ lastOp' = "InjectMapper"
    /\ UNCHANGED queue
    /\ UNCHANGED NotOwner

\* Events reach a handler whose setup succeeded.
Installed ==
    /\ handler.schemeErr = Ptr(ErrNil)
    /\ handler.mapper # Nil

\* What a callback leaves: its event and the calls of q.Add.
Callback(kind, oldIfAny, object) ==
    Ptr([event |-> kind, old |-> oldIfAny, object |-> object,
         adds |-> queueAdds(getOwnerReconcileRequest(handler, oldIfAny, object,
                                                      <<>>))])

Create ==
    /\ Installed
    /\ queue = Nil
    /\ \E object \in ObjectsWithoutOld : queue' = Callback("Create", Nil, object)
    /\ lastOp' = "Create"
    /\ UNCHANGED handler
    /\ UNCHANGED NotOwner

Update ==
    /\ Installed
    /\ queue = Nil
    /\ \E object \in Objects, oldState \in States :
         queue' = Callback("Update", Ptr([object EXCEPT !.state = oldState]), object)
    /\ lastOp' = "Update"
    /\ UNCHANGED handler
    /\ UNCHANGED NotOwner

Delete ==
    /\ Installed
    /\ queue = Nil
    /\ \E object \in ObjectsWithoutOld : queue' = Callback("Delete", Nil, object)
    /\ lastOp' = "Delete"
    /\ UNCHANGED handler
    /\ UNCHANGED NotOwner

Generic ==
    /\ Installed
    /\ queue = Nil
    /\ \E object \in ObjectsWithoutOld : queue' = Callback("Generic", Nil, object)
    /\ lastOp' = "Generic"
    /\ UNCHANGED handler
    /\ UNCHANGED NotOwner

NextOwner ==
    \/ InjectScheme
    \/ InjectMapper
    \/ Create
    \/ Update
    \/ Delete
    \/ Generic

SpecOwner == InitOwner /\ [][NextOwner]_vars

-----------------------------------------------------------------------------
(* The Kyma controller as KymaReconciler.SetupWithManager builds it
   (controllers/setup.go): the watch on Manifests and the listener channel *)

\* predicate.GenerationChangedPredicate: an update passes when
\* metadata.generation changed; the other events pass.
GenerationChangedPredicate(kind, oldIfAny, object) ==
    IF kind = "Update"
    THEN oldIfAny # Nil /\ Deref(oldIfAny).generation # object.generation
    ELSE TRUE

\* The predicates of the watch on Manifests: those given to WithEventFilter,
\* which the builder puts on every watch, and none of its own.
ManifestWatchPasses(kind, oldIfAny, object) ==
    GenerationChangedPredicate(kind, oldIfAny, object)

\* The predicate that lets every event pass.
ManifestWatchPasses_Unfiltered(kind, oldIfAny, object) == TRUE

KymaGroup == "operator.kyma-project.io"
KymaVersion == "v1beta2"

\* &watch.RestrictedEnqueueRequestForOwner{OwnerType: &v1beta2.Kyma{},
\* IsController: true} after its setup.
KymaOwnerHandler ==
    [OwnerType |-> "*Kyma", IsController |-> TRUE,
     groupKind |-> [Group |-> KymaGroup, Kind |-> "Kyma"],
     mapper |-> Ptr([scope |-> RESTScopeNameNamespace, versions |-> {KymaVersion}]),
     scheme |-> Ptr(("*Kyma" :> <<[Group |-> KymaGroup, Version |-> KymaVersion,
                                   Kind |-> "Kyma"]>>)),
     schemeErr |-> Ptr(ErrNil)]

\* The calls of queue.Add of a GenericFunc that adds the owner twice.
GenericFunc_AddsTwice(payload) ==
    IF ~payload.unstructured THEN EmptyBag
    ELSE IF "owner" \notin DOMAIN payload.Object THEN EmptyBag
    ELSE IF payload.Object["owner"].type # "ObjectKey" THEN EmptyBag
    ELSE ([Name |-> payload.Object["owner"].Name,
           Namespace |-> payload.Object["owner"].Namespace] :> 2)

\* GenericFunc of watchEventChannel: the calls of queue.Add for an event
\* whose object is payload.
GenericFunc(payload) ==
    IF ~payload.unstructured THEN EmptyBag
    ELSE IF "owner" \notin DOMAIN payload.Object THEN EmptyBag
    ELSE IF payload.Object["owner"].type # "ObjectKey" THEN EmptyBag
    ELSE SetToBag({[Name |-> payload.Object["owner"].Name,
                    Namespace |-> payload.Object["owner"].Namespace]})

-----------------------------------------------------------------------------
(* SpecSetup: one event on a watch of the Kyma controller *)

\* Owner references of a Manifest: its Kyma as controller, its Kyma as plain
\* owner, and no owner.
ManifestOwnerReferences ==
    {<<[APIVersion |-> <<KymaGroup, KymaVersion>>, Kind |-> "Kyma",
        Name |-> name, Controller |-> controller]>> :
       name \in {"kyma-a", "kyma-b"}, controller \in BOOLEAN}
      \cup {<<>>}

Manifests ==
    {[Namespace |-> "kcp-system", OwnerReferences |-> refs, state |-> state,
      generation |-> generation] :
       refs \in ManifestOwnerReferences, state \in States,
       generation \in 1..MaxGeneration}

\* What the value under "owner" of a listener event may be.
OwnerValues ==
    {[type |-> "ObjectKey", Name |-> name, Namespace |-> "kcp-system"] :
       name \in {"kyma-a", "kyma-b"}}
      \cup {[type |-> "string", Name |-> "kyma-a", Namespace |-> ""]}

\* Objects of events on the listener channel: unstructured with owner and
\* watched object, unstructured without owner, and not unstructured.
Payloads ==
    {[unstructured |-> TRUE, Object |-> ("owner" :> owner) @@ ("watched" :> watched)] :
       owner \in OwnerValues, watched \in OwnerValues}
      \cup {[unstructured |-> TRUE, Object |-> ("watched" :> watched)] :
              watched \in OwnerValues}
      \cup {[unstructured |-> unstructured, Object |-> <<>>] :
              unstructured \in BOOLEAN}

InitSetup ==
    /\ catalog = <<>>
    /\ remoteCatalog = <<>>
    /\ kyma = NoKyma
    /\ kymaStatus = <<>>
    /\ templates = <<>>
    /\ lastOp = "init"
    /\ descriptorCache = <<>>
    /\ listCalls = <<>>
    /\ lookup = Nil
    /\ guard = Nil
    /\ handler = KymaOwnerHandler
    /\ queue = Nil
    /\ Descriptor = Nil
    /\ callers = <<>>
    /\ call = Nil

\* An update of a Manifest: the event reaches the handler when the
\* predicates of the watch let it pass.
ManifestUpdate ==
    /\ queue = Nil
    /\ \E object \in Manifests, oldState \in States,
          oldGeneration \in 1..MaxGeneration :
         LET old == Ptr([object EXCEPT !.state = oldState,
                                       !.generation = oldGeneration])
             passes == ManifestWatchPasses("Update", old, object)
         IN
         queue' = Ptr([event |-> "Update", old |-> old, object |-> object,
                       passes |-> passes,
                       adds |-> IF passes
                                THEN queueAdds(getOwnerReconcileRequest(handler, old,
                                                                        object, <<>>))
                                ELSE EmptyBag])
    /\ lastOp' = "ManifestUpdate"
    /\ UNCHANGED handler
    /\ UNCHANGED NotOwner

\* A generic event on the listener channel.
ListenerEvent ==
    /\ queue = Nil
    /\ \E payload \in Payloads :
         queue' = Ptr([event |-> "Generic", old |-> Nil, object |-> payload,
                       passes |-> GenerationChangedPredicate("Generic", Nil, payload),
                       adds |-> GenericFunc(payload)])
    /\ lastOp' = "ListenerEvent"
    /\ UNCHANGED handler
    /\ UNCHANGED NotOwner

NextSetup == ManifestUpdate \/ ListenerEvent

SpecSetup == InitSetup /\ [][NextSetup]_vars

-----------------------------------------------------------------------------
(* SpecDescriptor: goroutines calling ModuleTemplateSpec.GetDescriptor on one
   template. Descriptor.Object is an interface value of two words, the type
   word tab and the pointer word data; nothing orders the accesses of
   different goroutines, so an assignment writes its two words one at a
   time in either order and other goroutines run in between. *)

Goroutines == 1..MaxCallers

NilObject == [tab |-> "nil", data |-> Nil]

\* The raw descriptors a template may carry.
RawDescriptors ==
    {Undecodable} \cup {Raw(name, version) : name \in {"fqdn", "mod"},
                                            version \in {"1.0.0", "2.0.0"}}

Idle == [pc |-> "idle", desc |-> Nil, written |-> {}, decodes |-> 0,
         after |-> FALSE, ret |-> Nil]

InitDescriptor ==
    /\ catalog = <<>>
    /\ remoteCatalog = <<>>
    /\ kyma = NoKyma
    /\ kymaStatus = <<>>
    /\ templates = <<>>
    /\ lastOp = "init"
    /\ descriptorCache = <<>>
    /\ listCalls = <<>>
    /\ lookup = Nil
    /\ guard = Nil
    /\ handler = Nil
    /\ queue = Nil
    /\ \E raw \in RawDescriptors : Descriptor = Ptr([Raw |-> raw, Object |-> NilObject])
    /\ callers = [g \in Goroutines |-> Idle]
    /\ call = Nil

NotDescriptor == <<catalog, remoteCatalog, kyma, kymaStatus, templates, descriptorCache,
                   listCalls, lookup, guard, handler, queue, call>>

\* A goroutine calls GetDescriptor; after records whether a call had returned
\* a descriptor before.
CallGetDescriptor ==
    \E g \in Goroutines :
      /\ callers[g].pc = "idle"
      /\ callers' = [callers EXCEPT ![g].pc = "108",
                                    ![g].after = \E h \in Goroutines :
                                                   /\ callers[h].pc = "done"
                                                   /\ Deref(callers[h].ret).err = ErrNil]
      /\ lastOp' = "CallGetDescriptor"
      /\ UNCHANGED Descriptor
      /\ UNCHANGED NotDescriptor

\* if in.Descriptor.Object != nil: an interface is nil when its type word is.
TestObject ==
    \E g \in Goroutines :
      /\ callers[g].pc = "108"
      /\ callers' = [callers EXCEPT ![g].pc = IF Deref(Descriptor).Object.tab # "nil"
                                              THEN "109" ELSE "111"]
      /\ lastOp' = "TestObject"
      /\ UNCHANGED Descriptor
      /\ UNCHANGED NotDescriptor

\* return in.Descriptor.Object.(*Descriptor), nil
ReturnMemoized ==
    \E g \in Goroutines :
      /\ callers[g].pc = "109"
      /\ callers' = [callers EXCEPT ![g].pc = "done",
                                    ![g].ret = Ptr([desc |-> Deref(Descriptor).Object.data,
                                                    err |-> ErrNil])]
      /\ lastOp' = "ReturnMemoized"
      /\ UNCHANGED Descriptor
      /\ UNCHANGED NotDescriptor

\* desc, err := compdesc.Decode(in.Descriptor.Raw, ...), and the return of the
\* error.
DecodeRaw ==
    \E g \in Goroutines :
      /\ callers[g].pc = "111"
      /\ LET decoded == Decode(Deref(Descriptor).Raw) IN
         callers' = [callers EXCEPT
                       ![g].decodes = 1,
                       ![g].pc = IF decoded.err # ErrNil THEN "done" ELSE "117",
                       ![g].desc = IF decoded.err # ErrNil THEN Nil
                                   ELSE Ptr([Name |-> decoded.Name,
                                             Version |-> decoded.Version]),
                       ![g].ret = IF decoded.err # ErrNil
                                  THEN Ptr([desc |-> Nil, err |-> decoded.err])
                                  ELSE Nil]
      /\ lastOp' = "DecodeRaw"
      /\ UNCHANGED Descriptor
      /\ UNCHANGED NotDescriptor

\* in.Descriptor.Object = &Descriptor{ComponentDescriptor: desc}: one word of
\* the interface value is written.
StoreWord ==
    \E g \in Goroutines, word \in {"tab", "data"} :
      /\ callers[g].pc = "117"
      /\ word \notin callers[g].written
      /\ Descriptor' = Ptr([Deref(Descriptor) EXCEPT
                              !.Object = IF word = "tab"
                                         THEN [@ EXCEPT !.tab = "*Descriptor"]
                                         ELSE [@ EXCEPT !.data = callers[g].desc]])
      /\ callers' = [callers EXCEPT
                       ![g].written = @ \cup {word},
                       ![g].pc = IF callers[g].written \cup {word} = {"tab", "data"}
                                 THEN "118" ELSE "117"]
      /\ lastOp' = "StoreWord"
      /\ UNCHANGED NotDescriptor

\* return in.Descriptor.Object.(*Descriptor), err
ReturnStored ==
    \E g \in Goroutines :
      /\ callers[g].pc = "118"
      /\ callers' = [callers EXCEPT ![g].pc = "done",
                                    ![g].ret = Ptr([desc |-> Deref(Descriptor).Object.data,
                                                    err |-> ErrNil])]
      /\ lastOp' = "ReturnStored"
      /\ UNCHANGED Descriptor
      /\ UNCHANGED NotDescriptor

NextDescriptor ==
    \/ CallGetDescriptor
    \/ TestObject
    \/ ReturnMemoized
    \/ DecodeRaw
    \/ StoreWord
    \/ ReturnStored

SpecDescriptor == InitDescriptor /\ [][NextDescriptor]_vars

-----------------------------------------------------------------------------
(* ManifestCustomResourceReadyCheck (internal/manifest/v1beta1/ready_check.go) *)

StateReady == "Ready"
StateWarning == "Warning"
StateError == "Error"
StateProcessing == "Processing"

ErrDeploymentNotReady == "ErrDeploymentNotReady"
ErrGetResource == "client.Get error"
ErrUnmarshal == "json.Unmarshal error"
ErrNoDeterminedState == "ErrNoDeterminedState"
ErrCustomResourceStateNotFound == "ErrCustomResourceStateNotFound"
ErrResourcesNotReady == "ErrResourcesNotReady"

\* const customResourceStatePath = "status.state", as strings.Split cuts it.
customResourceStatePath == <<"status", "state">>

\* Values of an unstructured object: a string, a nested map, a number.
StringValue(s) == [kind |-> "string", s |-> s, m |-> <<>>]
MapValue(m) == [kind |-> "map", s |-> "", m |-> m]
NumberValue == [kind |-> "number", s |-> "", m |-> <<>>]

\* unstructured.NestedString(obj, fields...): the string at the path; not
\* found when a key of the path is missing; an error when a value on the way
\* is not a map or the last one is not a string.
RECURSIVE NestedStringFields(_, _)
NestedStringFields(obj, fields) ==
    IF obj.kind # "map" THEN [val |-> "", found |-> FALSE, err |-> TRUE]
    ELSE IF fields[1] \notin DOMAIN obj.m THEN [val |-> "", found |-> FALSE, err |-> FALSE]
    ELSE IF Len(fields) > 1 THEN NestedStringFields(obj.m[fields[1]], Tail(fields))
    ELSE IF obj.m[fields[1]].kind # "string" THEN [val |-> "", found |-> FALSE, err |-> TRUE]
    ELSE [val |-> obj.m[fields[1]].s, found |-> TRUE, err |-> FALSE]

\* A stableState that takes every state for stable.
stableState_Any(state) == TRUE

\* stableState: Ready and Warning.
stableState(state) == state = StateReady \/ state = StateWarning

\* parseCustomStateCheck: the check of the annotation, the default check
\* without annotation.
parseCustomStateCheck(manifest) ==
    IF manifest.Annotation = Nil
    THEN [check |-> [JSONPath |-> customResourceStatePath, Value |-> StateReady],
          err |-> ErrNil]
    ELSE IF ~Deref(manifest.Annotation).valid
    THEN [check |-> [JSONPath |-> <<"">>, Value |-> ""], err |-> ErrUnmarshal]
    ELSE [check |-> [JSONPath |-> Deref(manifest.Annotation).JSONPath,
                     Value |-> Deref(manifest.Annotation).Value],
          err |-> ErrNil]

\* The first resource that converts to a Deployment, Nil without one.
RECURSIVE firstDeployment(_, _)
firstDeployment(resources, i) ==
    IF i > Len(resources) THEN Nil
    ELSE IF resources[i].deployment THEN Ptr(resources[i])
    ELSE firstDeployment(resources, i + 1)

\* checkDeploymentState: the first Deployment among the resources must be
\* Available or have all its replicas ready.
checkDeploymentState(resources) ==
    LET found == firstDeployment(resources, 1) IN
    IF found = Nil THEN ErrNil
    ELSE IF Deref(found).available = "True" THEN ErrNil
    ELSE IF /\ Deref(found).replicas # Nil
            /\ Deref(Deref(found).replicas) = Deref(found).readyReplicas
    THEN ErrNil
    ELSE ErrDeploymentNotReady

\* ManifestCustomResourceReadyCheck.Run; get is what clnt.Get answers for
\* manifest.Spec.Resource: an error or the object of the cluster.
Run(get, manifest, resources) ==
    LET deploymentErr == checkDeploymentState(resources)
        customStateCheck == parseCustomStateCheck(manifest)
        nested == NestedStringFields(get.Object, customStateCheck.check.JSONPath)
        typedState == IF customStateCheck.check.Value = nested.val
                      THEN StateReady ELSE nested.val
    IN
    IF deploymentErr # ErrNil THEN [state |-> StateError, err |-> deploymentErr]
    ELSE IF manifest.Resource = Nil THEN [state |-> StateReady, err |-> ErrNil]
    ELSE IF get.err # ErrNil THEN [state |-> StateError, err |-> get.err]
    ELSE IF customStateCheck.err # ErrNil
    THEN [state |-> StateError, err |-> customStateCheck.err]
    ELSE IF nested.err THEN [state |-> StateError, err |-> ErrNoDeterminedState]
    ELSE IF ~nested.found
    THEN [state |-> StateError, err |-> ErrCustomResourceStateNotFound]
    ELSE IF ~stableState(typedState)
    THEN [state |-> StateError, err |-> ErrResourcesNotReady]
    ELSE [state |-> typedState, err |-> ErrNil]

-----------------------------------------------------------------------------
(* SpecReady: one call of ManifestCustomResourceReadyCheck.Run *)

\* Resources of a manifest: something that is no Deployment, and Deployments
\* by Available condition, spec.replicas and status.readyReplicas.
ResourceInfos ==
    {[deployment |-> FALSE, available |-> "", replicas |-> Nil, readyReplicas |-> 0]}
      \cup {[deployment |-> TRUE, available |-> available, replicas |-> replicas,
             readyReplicas |-> readyReplicas] :
              available \in {"", "True", "False"}, replicas \in {Nil, Ptr(1)},
              readyReplicas \in 0..1}

ResourceLists ==
    {<<>>} \cup {<<r>> : r \in ResourceInfos}
      \cup {<<ResourceInfos1, r>> :
              ResourceInfos1 \in {[deployment |-> FALSE, available |-> "",
                                   replicas |-> Nil, readyReplicas |-> 0]},
              r \in {x \in ResourceInfos : x.deployment /\ x.available = "False"}}

\* What the custom resource of the cluster may look like.
ResourceObjects ==
    {MapValue(<<>>),
     MapValue("status" :> StringValue("Ready")),
     MapValue("status" :> MapValue("state" :> NumberValue)),
     MapValue("status" :> MapValue("health" :> StringValue("green")))}
      \cup {MapValue("status" :> MapValue("state" :> StringValue(s))) :
              s \in {StateReady, StateWarning, StateProcessing, StateError,
                     "Deleting", ""}}

GetAnswers ==
    {[err |-> ErrGetResource, Object |-> MapValue(<<>>)]}
      \cup {[err |-> ErrNil, Object |-> o] : o \in ResourceObjects}

\* Manifests by Spec.Resource and the custom state check annotation.
ReadyManifests ==
    {[Resource |-> resource, Annotation |-> annotation] :
       resource \in {Nil, Ptr("sample-cr")},
       annotation \in
         {Nil,
          Ptr([valid |-> FALSE, JSONPath |-> <<"">>, Value |-> ""]),
          Ptr([valid |-> TRUE, JSONPath |-> <<"">>, Value |-> ""]),
          Ptr([valid |-> TRUE, JSONPath |-> <<"status", "health">>, Value |-> "green"]),
          Ptr([valid |-> TRUE, JSONPath |-> <<"status", "state">>,
               Value |-> StateProcessing])}}

InitReady ==
    /\ catalog = <<>>
    /\ remoteCatalog = <<>>
    /\ kyma = NoKyma
    /\ kymaStatus = <<>>
    /\ templates = <<>>
    /\ lastOp = "init"
    /\ descriptorCache = <<>>
    /\ listCalls = <<>>
    /\ lookup = Nil
    /\ guard = Nil
    /\ handler = Nil
    /\ queue = Nil
    /\ Descriptor = Nil
    /\ callers = <<>>
    /\ call = Nil

NotCall == <<catalog, remoteCatalog, kyma, kymaStatus, templates, descriptorCache,
             listCalls, lookup, guard, handler, queue, Descriptor, callers>>

\* One call of Run.
ReadyCheck ==
    /\ call = Nil
    /\ \E get \in GetAnswers, manifest \in ReadyManifests, resources \in ResourceLists :
         call' = Ptr([get |-> get, manifest |-> manifest, resources |-> resources,
                      ret |-> Run(get, manifest, resources)])
    /\ lastOp' = "ReadyCheck"
    /\ UNCHANGED NotCall

NextReady == ReadyCheck

SpecReady == InitReady /\ [][NextReady]_vars

-----------------------------------------------------------------------------
(* ClusterClient.GetRESTConfig (controllers/control-plane/control_plane_test.go) *)

ErrKubeconfigFetchFailed == "ErrKubeconfigFetchFailed"
ErrMoreThanOneSecretFound == "conflict: ErrMoreThanOneSecretFound"
ErrListSecrets == "client.List error"
ErrInvalidKubeconfig == "clientcmd.RESTConfigFromKubeConfig error"

\* cc.DefaultClient.List with the label selector kymaNameLabel = kymaOwner:
\* the secrets of the namespace that carry the label with that value, in the
\* order of the store.
RECURSIVE ListSecrets(_, _, _)
ListSecrets(secrets, i, kymaOwner) ==
    IF i > Len(secrets) THEN <<>>
    ELSE IF secrets[i].Label = Ptr(kymaOwner)
    THEN <<secrets[i]>> \o ListSecrets(secrets, i + 1, kymaOwner)
    ELSE ListSecrets(secrets, i + 1, kymaOwner)

\* cc.DefaultClient.Get by name: the secret of that name, Nil without one.
RECURSIVE GetSecret(_, _, _)
GetSecret(secrets, i, name) ==
    IF i > Len(secrets) THEN Nil
    ELSE IF secrets[i].Name = name THEN Ptr(secrets[i])
    ELSE GetSecret(secrets, i + 1, name)

\* clientcmd.RESTConfigFromKubeConfig(kubeConfigSecret.Data["config"])
RESTConfigFromKubeConfig(secret) ==
    IF secret.Config.valid
    THEN [config |-> Ptr([Host |-> secret.Config.host]), err |-> ErrNil]
    ELSE [config |-> Nil, err |-> ErrInvalidKubeconfig]

\* A GetRESTConfig that takes the first of several labelled secrets.
GetRESTConfig_FirstOfMany(secrets, listErr, kymaOwner) ==
    LET Items == ListSecrets(secrets, 1, kymaOwner)
        byKey == GetSecret(secrets, 1, kymaOwner)
    IN
    IF listErr # ErrNil THEN [config |-> Nil, err |-> listErr]
    ELSE IF Len(Items) < 1 /\ byKey = Nil
    THEN [config |-> Nil, err |-> ErrKubeconfigFetchFailed]
    ELSE RESTConfigFromKubeConfig(IF Len(Items) < 1 THEN Deref(byKey) ELSE Items[1])

\* ClusterClient.GetRESTConfig over the secrets of the namespace; listErr is
\* the error of the List call.
GetRESTConfig(secrets, listErr, kymaOwner) ==
    LET Items == ListSecrets(secrets, 1, kymaOwner)
        byKey == GetSecret(secrets, 1, kymaOwner)
    IN
    IF listErr # ErrNil THEN [config |-> Nil, err |-> listErr]
    ELSE IF Len(Items) < 1 /\ byKey = Nil
    THEN [config |-> Nil, err |-> ErrKubeconfigFetchFailed]
    ELSE IF Len(Items) > 1 THEN [config |-> Nil, err |-> ErrMoreThanOneSecretFound]
    ELSE RESTConfigFromKubeConfig(IF Len(Items) < 1 THEN Deref(byKey) ELSE Items[1])

-----------------------------------------------------------------------------
(* SpecRESTConfig: one call of ClusterClient.GetRESTConfig *)

SecretNames == <<"kyma-a", "secret-1", "secret-2">>

\* A secret by its name: its value of the Kyma-name label, if it has the
\* label, and its kubeconfig.
SecretsNamed(name) ==
    {[Name |-> name, Label |-> label,
      Config |-> [valid |-> valid, host |-> "https://" \o name]] :
       label \in {Nil, Ptr("kyma-a"), Ptr("kyma-b")}, valid \in BOOLEAN}

\* The secrets of the namespace: for each name one secret or none.
RECURSIVE SecretStores(_)
SecretStores(i) ==
    IF i > Len(SecretNames) THEN {<<>>}
    ELSE LET rest == SecretStores(i + 1) IN
         rest \cup {<<s>> \o r : s \in SecretsNamed(SecretNames[i]), r \in rest}

InitRESTConfig ==
    /\ catalog = <<>>
    /\ remoteCatalog = <<>>
    /\ kyma = NoKyma
    /\ kymaStatus = <<>>
    /\ templates = <<>>
    /\ lastOp = "init"
    /\ descriptorCache = <<>>
    /\ listCalls = <<>>
    /\ lookup = Nil
    /\ guard = Nil
    /\ handler = Nil
    /\ queue = Nil
    /\ Descriptor = Nil
    /\ callers = <<>>
    /\ call = Nil

\* One call of GetRESTConfig for the Kyma kyma-a.
CallGetRESTConfig ==
    /\ call = Nil
    /\ \E secrets \in SecretStores(1), listErr \in {ErrNil, ErrListSecrets} :
         call' = Ptr([secrets |-> secrets, listErr |-> listErr, kymaOwner |-> "kyma-a",
                      ret |-> GetRESTConfig(secrets, listErr, "kyma-a")])
    /\ lastOp' = "CallGetRESTConfig"
    /\ UNCHANGED NotCall

NextRESTConfig == CallGetRESTConfig

SpecRESTConfig == InitRESTConfig /\ [][NextRESTConfig]_vars

-----------------------------------------------------------------------------
(* Claims about single lookups (SpecLookup) *)

\* The identity predicates of getTemplate: label, namespace/name, object name,
\* descriptor name.
NameMatch(template, name) ==
    \/ template.label = name
    \/ (template.namespace \o "/" \o template.name) = name
    \/ template.name = name

IdentityMatch(template, name) ==
    \/ NameMatch(template, name)
    \/ template.descriptor.decodable /\ template.descriptor.name = name

\* The templates of the catalog that match the module in the desired channel.
Candidates(cat, name, desiredChannel) ==
    {i \in DOMAIN cat :
       IdentityMatch(cat[i], name) /\ cat[i].channel = desiredChannel}

\* getTemplate decodes the descriptor of every template that its label and
\* names do not already make a candidate; one of them does not decode.
DecodeFails(cat, name, desiredChannel) ==
    \E i \in DOMAIN cat :
       /\ ~(NameMatch(cat[i], name) /\ cat[i].channel = desiredChannel)
       /\ ~cat[i].descriptor.decodable

LookupDesired == getDesiredChannel(Deref(lookup).channel, Deref(lookup).defaultChannel)
LookupCandidates == Candidates(catalog, Deref(lookup).name, LookupDesired)
LookupDecodeFails == DecodeFails(catalog, Deref(lookup).name, LookupDesired)

\* C1 (as stated): whenever two or more templates match the module in the
\* desired channel, GetAndValidate returns ErrTemplateNotIdentified and no
\* template.
C1_AmbiguousAlwaysNotIdentified ==
    lookup # Nil /\ Cardinality(LookupCandidates) >= 2 =>
      /\ Deref(lookup).info.Err = ErrTemplateNotIdentified
      /\ Deref(lookup).info.ModuleTemplate = Nil

\* C1 (amended): whenever two or more templates match the module in the
\* desired channel, GetAndValidate returns no template; its error is
\* ErrTemplateNotIdentified when every descriptor getTemplate decodes is
\* decodable, and the descriptor error otherwise.
C1_AmbiguousNeverPicked ==
    lookup # Nil /\ Cardinality(LookupCandidates) >= 2 =>
      /\ Deref(lookup).info.ModuleTemplate = Nil
      /\ Deref(lookup).info.Err =
           IF LookupDecodeFails THEN ErrInvalidDescriptor ELSE ErrTemplateNotIdentified

C1_Witness ==
    /\ lookup # Nil
    /\ Cardinality(LookupCandidates) >= 2
    /\ Deref(lookup).info.Err = ErrTemplateNotIdentified
    /\ \E i \in LookupCandidates : ~NameMatch(catalog[i], Deref(lookup).name)

\* C9 (as stated): GetAndValidate never returns a mandatory template, and when
\* the only template matching the module in the desired channel is mandatory
\* it returns ErrTemplateMarkedAsMandatory and no template.
C9_MandatoryAlwaysMarked ==
    lookup # Nil =>
      /\ Deref(lookup).info.ModuleTemplate # Nil =>
           ~Deref(Deref(lookup).info.ModuleTemplate).mandatory
      /\ \A i \in LookupCandidates :
           LookupCandidates = {i} /\ catalog[i].mandatory =>
             /\ Deref(lookup).info.Err = ErrTemplateMarkedAsMandatory
             /\ Deref(lookup).info.ModuleTemplate = Nil

\* C9 (amended): GetAndValidate never returns a mandatory template; when the
\* only template matching the module in the desired channel is mandatory it
\* returns no template, with ErrTemplateMarkedAsMandatory when every descriptor
\* getTemplate decodes is decodable and the descriptor error otherwise.
C9_MandatoryNeverReturned ==
    lookup # Nil =>
      /\ Deref(lookup).info.ModuleTemplate # Nil =>
           ~Deref(Deref(lookup).info.ModuleTemplate).mandatory
      /\ \A i \in LookupCandidates :
           LookupCandidates = {i} /\ catalog[i].mandatory =>
             /\ Deref(lookup).info.ModuleTemplate = Nil
             /\ Deref(lookup).info.Err =
                  IF LookupDecodeFails THEN ErrInvalidDescriptor
                  ELSE ErrTemplateMarkedAsMandatory

C9_Witness ==
    /\ lookup # Nil
    /\ \E i \in LookupCandidates : LookupCandidates = {i} /\ catalog[i].mandatory
    /\ Deref(lookup).info.Err = ErrTemplateMarkedAsMandatory
    /\ Deref(lookup).info.ModuleTemplate = Nil

\* C10: no successful result of GetAndValidate or of the older WithContext
\* holds a template whose channel is the empty string.
C10_NoEmptyChannelResolved ==
    lookup # Nil =>
      /\ Deref(lookup).info.ModuleTemplate # Nil =>
           /\ Deref(lookup).info.Err = ErrNil
           /\ Deref(Deref(lookup).info.ModuleTemplate).channel # ""
      /\ Deref(lookup).to.ModuleTemplate # Nil =>
           /\ Deref(lookup).to.Err = ErrNil
           /\ Deref(Deref(lookup).to.ModuleTemplate).channel # ""

\* A lookup that succeeds, in both packages, although the catalog holds a
\* template of the module with an empty channel.
C10_Witness ==
    /\ lookup # Nil
    /\ Deref(lookup).info.ModuleTemplate # Nil
    /\ Deref(lookup).to.ModuleTemplate # Nil
    /\ \E i \in DOMAIN catalog :
         catalog[i].channel = "" /\ IdentityMatch(catalog[i], Deref(lookup).name)

\* C11: the DesiredChannel of every result of GetAndValidate (and of the
\* older WithContext) is the module's channel when that is not empty, else
\* the Kyma's channel when that is not empty, else DefaultChannel; it is
\* never empty.
C11_DesiredChannelPrecedence ==
    lookup # Nil =>
      /\ Deref(lookup).info.DesiredChannel # ""
      /\ Deref(lookup).info.DesiredChannel =
           (IF Deref(lookup).channel # "" THEN Deref(lookup).channel
            ELSE IF Deref(lookup).defaultChannel # "" THEN Deref(lookup).defaultChannel
            ELSE "regular")
      /\ Deref(lookup).to.DesiredChannel = Deref(lookup).info.DesiredChannel

\* A lookup with a module channel and a Kyma channel that are both set and
\* differ: the module's channel is the desired one.
C11_Witness ==
    /\ lookup # Nil
    /\ Deref(lookup).channel = "regular"
    /\ Deref(lookup).defaultChannel = "fast"
    /\ Deref(lookup).info.DesiredChannel = "regular"
    /\ Deref(lookup).info.Err # ErrNil

\* The names of the catalog's templates of the desired channel that satisfy
\* one of the three predicates the claim names: label, namespace/name,
\* descriptor name.
LookupStatedCandidateNames ==
    {catalog[i].name : i \in
       {j \in DOMAIN catalog :
          /\ catalog[j].channel = LookupDesired
          /\ \/ catalog[j].label = Deref(lookup).name
             \/ (catalog[j].namespace \o "/" \o catalog[j].name) = Deref(lookup).name
             \/ /\ catalog[j].descriptor.decodable
                /\ catalog[j].descriptor.name = Deref(lookup).name}}

\* The same for the predicates of the older package: label, object name,
\* descriptor name.
LookupOlderCandidateNames ==
    {catalog[i].name : i \in
       {j \in DOMAIN catalog :
          /\ catalog[j].channel = LookupDesired
          /\ \/ catalog[j].label = Deref(lookup).name
             \/ catalog[j].name = Deref(lookup).name
             \/ /\ catalog[j].descriptor.decodable
                /\ catalog[j].descriptor.name = Deref(lookup).name}}

\* C12 (as stated): the templates getTemplate collects are exactly those of
\* the desired channel whose label, namespace/name or descriptor name is the
\* module name.
C12_CandidateIffThreePredicates ==
    lookup # Nil /\ Deref(lookup).filter.err = ErrNil =>
      Deref(lookup).filter.names = LookupStatedCandidateNames

\* C12 (amended): the templates getTemplate collects are exactly those of the
\* desired channel whose label, namespace/name, object name or descriptor
\* name is the module name; the older package collects those whose label,
\* object name or descriptor name is the module name.
C12_CandidateIffFourPredicates ==
    lookup # Nil =>
      /\ Deref(lookup).filter.err = ErrNil =>
           Deref(lookup).filter.names = {catalog[i].name : i \in LookupCandidates}
      /\ Deref(lookup).toFilter.err = ErrNil =>
           Deref(lookup).toFilter.names = LookupOlderCandidateNames

\* A lookup by object name that collects a template which neither its label,
\* its namespace/name nor its descriptor name makes a candidate, and leaves
\* out another template of the same channel.
C12_Witness ==
    /\ lookup # Nil
    /\ Deref(lookup).filter.err = ErrNil
    /\ Deref(lookup).filter.names # LookupStatedCandidateNames
    /\ Deref(lookup).filter.names # {}
    /\ \E i \in DOMAIN catalog :
         /\ catalog[i].channel = LookupDesired
         /\ catalog[i].name \notin Deref(lookup).filter.names

\* C13: a template is collected at most once, however many predicates it
\* satisfies; when exactly one template matches the module in the desired
\* channel (and it is not mandatory and no decode aborts the lookup),
\* GetAndValidate returns that template without error.
C13_MatchCountedOnce ==
    lookup # Nil =>
      /\ Deref(lookup).filter.err = ErrNil =>
           Deref(lookup).filter.count = Cardinality(LookupCandidates)
      /\ \A i \in LookupCandidates :
           LookupCandidates = {i} /\ ~LookupDecodeFails /\ ~catalog[i].mandatory =>
             /\ Deref(lookup).info.ModuleTemplate = Ptr(catalog[i])
             /\ Deref(lookup).info.Err = ErrNil

\* The only candidate has both the label and the descriptor name of the
\* module, and the lookup returns it.
C13_Witness ==
    /\ lookup # Nil
    /\ \E i \in LookupCandidates :
         /\ LookupCandidates = {i}
         /\ catalog[i].label = Deref(lookup).name
         /\ catalog[i].descriptor.decodable
         /\ catalog[i].descriptor.name = Deref(lookup).name
         /\ Deref(lookup).info.ModuleTemplate = Ptr(catalog[i])
         /\ Deref(lookup).info.Err = ErrNil
    /\ Len(catalog) > 1

\* C14 (as stated): when getTemplate fails with ErrTemplateNotIdentified, the
\* candidate names in the error are exactly the names of the templates that
\* match the module in the desired channel.
C14_ErrorListsTheCandidates ==
    lookup # Nil /\ Deref(lookup).found.err = ErrTemplateNotIdentified =>
      Deref(lookup).found.candidates = {catalog[i].name : i \in LookupCandidates}

\* C15: when every descriptor decodes and no template matches the module in
\* the desired channel, GetAndValidate returns ErrNoTemplatesInListResult, no
\* template, and the desired channel.
C15_NoMatchNotFound ==
    /\ lookup # Nil
    /\ \A i \in DOMAIN catalog : catalog[i].descriptor.decodable
    /\ LookupCandidates = {}
    => /\ Deref(lookup).info.Err = ErrNoTemplatesInListResult
       /\ Deref(lookup).info.ModuleTemplate = Nil
       /\ Deref(lookup).info.DesiredChannel = LookupDesired

\* The module has a template, but only in another channel than the desired
\* one.
C15_Witness ==
    /\ lookup # Nil
    /\ \A i \in DOMAIN catalog : catalog[i].descriptor.decodable
    /\ LookupCandidates = {}
    /\ \E i \in DOMAIN catalog :
         IdentityMatch(catalog[i], Deref(lookup).name)
         /\ catalog[i].channel # LookupDesired
    /\ Deref(lookup).info.Err = ErrNoTemplatesInListResult

\* The older getTemplate decodes the descriptor of every template that its
\* label and object name do not already make a candidate; one does not decode.
LookupOlderDecodeFails ==
    \E i \in DOMAIN catalog :
       /\ ~(/\ catalog[i].channel = LookupDesired
            /\ \/ catalog[i].label = Deref(lookup).name
               \/ catalog[i].name = Deref(lookup).name)
       /\ ~catalog[i].descriptor.decodable

\* C16: when the decoding of a descriptor fails while getTemplate matches
\* identities, getTemplate returns the decode error and no template, whatever
\* else the catalog holds; so does the older package.
C16_DecodeFailureAborts ==
    lookup # Nil =>
      /\ LookupDecodeFails =>
           /\ Deref(lookup).found.err = ErrInvalidDescriptor
           /\ Deref(lookup).found.template = Nil
           /\ Deref(lookup).info.ModuleTemplate = Nil
      /\ LookupOlderDecodeFails =>
           /\ Deref(lookup).to.Err = ErrInvalidDescriptor
           /\ Deref(lookup).to.ModuleTemplate = Nil

\* A decode fails although exactly one template, decodable and not
\* mandatory, matches the module in the desired channel.
C16_Witness ==
    /\ lookup # Nil
    /\ LookupDecodeFails
    /\ \E i \in LookupCandidates :
         /\ LookupCandidates = {i}
         /\ catalog[i].descriptor.decodable
         /\ ~catalog[i].mandatory
    /\ Deref(lookup).found.err = ErrInvalidDescriptor

\* The catalog without its template i.
WithoutTemplate(cat, i) ==
    [j \in 1..(Len(cat) - 1) |-> IF j < i THEN cat[j] ELSE cat[j + 1]]

\* What GetAndValidate returns for the module of the last lookup from the
\* catalog without its template i.
LookupWithout(i) ==
    GetAndValidate(descriptorCache, WithoutTemplate(catalog, i), Deref(lookup).name,
                   Deref(lookup).channel, Deref(lookup).defaultChannel)

\* C34 (as stated): a template of the catalog that is not a candidate for
\* the module (another channel than the desired one, or label, names and
\* descriptor name all different from the module name) does not change what
\* GetAndValidate returns: the result is that of the catalog without it.
C34_NonCandidateNeverMatters ==
    lookup # Nil =>
      \A i \in DOMAIN catalog \ LookupCandidates :
        Deref(lookup).info = LookupWithout(i)

\* C34 (amended): a template of the catalog that is not a candidate for the
\* module and whose descriptor decodes does not change what GetAndValidate
\* returns: the result is that of the catalog without it.
C34_DecodableNonCandidateNeverMatters ==
    lookup # Nil =>
      \A i \in DOMAIN catalog \ LookupCandidates :
        catalog[i].descriptor.decodable => Deref(lookup).info = LookupWithout(i)

\* A lookup that returns the module's template of the desired channel from a
\* catalog that also holds a template of the module in another channel.
C34_Witness ==
    /\ lookup # Nil
    /\ Deref(lookup).info.ModuleTemplate # Nil
    /\ \E i \in DOMAIN catalog \ LookupCandidates :
         /\ IdentityMatch(catalog[i], Deref(lookup).name)
         /\ catalog[i].descriptor.decodable
         /\ catalog[i].channel # ""

\* C35: GetAndValidate never returns ErrNotDefaultChannelAllowed, whatever
\* the catalog, the module name, the module's channel and the default
\* channel.
C35_NeverNotDefaultChannelAllowed ==
    lookup # Nil => Deref(lookup).info.Err # ErrNotDefaultChannelAllowed

\* A lookup without module channel and without default channel over a
\* catalog that holds a template of the module with an empty channel.
C35_Witness ==
    /\ lookup # Nil
    /\ Deref(lookup).channel = ""
    /\ Deref(lookup).defaultChannel = ""
    /\ \E i \in DOMAIN catalog :
         catalog[i].channel = "" /\ NameMatch(catalog[i], Deref(lookup).name)

-----------------------------------------------------------------------------
(* Claims about single skew checks (SpecGuard) *)

GuardTemplate == Deref(guard.moduleTemplate.ModuleTemplate)
GuardChannelDiffers == GuardTemplate.channel # guard.moduleStatus.Channel
GuardVersionsValid ==
    /\ GuardTemplate.descriptor.decodable
    /\ NewVersion(GuardTemplate.descriptor.version).ok
    /\ NewVersion(guard.moduleStatus.Version).ok
GuardVersionLower ==
    /\ GuardVersionsValid
    /\ LessThan(NewVersion(GuardTemplate.descriptor.version).v,
                NewVersion(guard.moduleStatus.Version).v)

C5_TieOrUpgradeAllowed ==
    /\ guard # Nil /\ guard.result # Nil /\ GuardChannelDiffers /\ GuardVersionsValid
    /\ ~GuardVersionLower
    => Deref(guard.result) = guard.moduleTemplate

\* A tie of two different version strings across a channel change, checked
\* against a status whose Template is set, ends without error.
C5_Witness ==
    /\ guard # Nil /\ guard.result # Nil /\ GuardChannelDiffers /\ GuardVersionsValid
    /\ guard.moduleStatus.Template # Nil
    /\ GuardTemplate.descriptor.version # guard.moduleStatus.Version
    /\ NewVersion(GuardTemplate.descriptor.version).v = NewVersion(guard.moduleStatus.Version).v
    /\ Deref(guard.result).Err = ErrNil

\* C6: when the template's channel equals status.Channel,
\* checkValidTemplateUpdate sets no error, whatever the generations and the
\* version strings are.
C6_SameChannelNeverRefused ==
    guard # Nil /\ guard.result # Nil /\ ~GuardChannelDiffers =>
      Deref(guard.result) = guard.moduleTemplate

\* Same channel, another generation and a lower version: no error.
C6_Witness ==
    /\ guard # Nil /\ guard.result # Nil /\ ~GuardChannelDiffers
    /\ guard.moduleStatus.Template # Nil
    /\ GuardTemplate.generation # Deref(guard.moduleStatus.Template).Generation
    /\ GuardVersionLower
    /\ Deref(guard.result).Err = ErrNil

C33_HigherInstalledNeverOutdated ==
    (guard # Nil /\ guard.outdated # Nil /\ GuardChannelDiffers /\ GuardVersionLower)
    => ~Deref(guard.outdated).Outdated

-----------------------------------------------------------------------------
(* Claims about reconciliation passes (Spec, SpecChannel) *)

\* The module the tenant changes the channel of, and the channel it asks for.
MainModuleName == kyma.modules[1].Name
MainDesiredChannel == getDesiredChannel(kyma.modules[1].Channel, kyma.channel)

VersionLower(a, b) ==
    /\ NewVersion(a).ok
    /\ NewVersion(b).ok
    /\ LessThan(NewVersion(a).v, NewVersion(b).v)

\* C3: no step changes the recorded channel of a module while lowering its
\* recorded version: when the channel of a module's ModuleStatus changes, the
\* old and the new recorded version are valid and the new one is not lower.
C3_NoDowngradeAcrossChannels ==
    [][\A i \in DOMAIN kymaStatus : \A j \in DOMAIN kymaStatus' :
         /\ kymaStatus[i].Name = kymaStatus'[j].Name
         /\ kymaStatus[i].Channel # kymaStatus'[j].Channel
         => /\ NewVersion(kymaStatus[i].Version).ok
            /\ NewVersion(kymaStatus'[j].Version).ok
            /\ ~VersionLower(kymaStatus'[j].Version, kymaStatus[i].Version)]_vars

\* A pass has resolved the module to a template of another channel than the
\* recorded one, with a lower version, and the status still holds the recorded
\* channel and version.
C3_Witness ==
    /\ lastOp = "Reconcile"
    /\ \E i \in DOMAIN kymaStatus :
         /\ kymaStatus[i].Name \in DOMAIN templates
         /\ templates[kymaStatus[i].Name].ModuleTemplate # Nil
         /\ Deref(templates[kymaStatus[i].Name].ModuleTemplate).channel
              # kymaStatus[i].Channel
         /\ VersionLower(
              Deref(templates[kymaStatus[i].Name].ModuleTemplate).descriptor.version,
              kymaStatus[i].Version)

\* The result of the last pass refuses the module's template as a downgrade.
Rejected(result, moduleName) ==
    /\ moduleName \in DOMAIN result
    /\ result[moduleName].Err = ErrTemplateUpdateNotAllowed

\* The module's channel is the recorded one again, or the template of the
\* channel it asks for has a version that is at least the recorded one.
RaisedOrReverted ==
    \A i \in DOMAIN kymaStatus :
      moduleMatch(kymaStatus[i], MainModuleName) =>
        \/ kymaStatus[i].Channel = MainDesiredChannel
        \/ \E t \in DOMAIN catalog :
             /\ catalog[t].channel = MainDesiredChannel
             /\ IdentityMatch(catalog[t], MainModuleName)
             /\ NewVersion(catalog[t].descriptor.version).ok
             /\ NewVersion(kymaStatus[i].Version).ok
             /\ ~VersionLower(catalog[t].descriptor.version, kymaStatus[i].Version)

\* First half of C4: right after a pass that refused the module's template,
\* the version is still too low in a channel that is still another one, and a
\* further pass over the same catalog, Kyma and status refuses it again.
C4_StaysRejected ==
    lastOp = "Reconcile" /\ Rejected(templates, MainModuleName) =>
      /\ ~RaisedOrReverted
      /\ \A orders \in [1..Len(kyma.modules) -> Orders(Len(catalog))] :
           Rejected(GetRegularTemplates(descriptorCache, catalog, orders, kyma,
                                        kymaStatus).templates,
                    MainModuleName)

\* Second half of C4: a pass that starts after a refusal, once the version
\* was raised to at least the recorded one or the channel set back, returns a
\* template for the module without ErrTemplateUpdateNotAllowed.
C4_Lifted ==
    /\ Rejected(templates, MainModuleName)
    /\ RaisedOrReverted
    /\ lastOp' = "Reconcile"
    => /\ MainModuleName \in DOMAIN templates'
       /\ templates'[MainModuleName].ModuleTemplate # Nil
       /\ templates'[MainModuleName].Err # ErrTemplateUpdateNotAllowed

\* C4: a channel change refused as a downgrade stays refused while catalog,
\* channel and status are unchanged, and the first pass after the version is
\* raised to at least the recorded one, or the channel is set back, returns a
\* template for the module with no ErrTemplateUpdateNotAllowed.
C4_RejectedUntilRaisedOrReverted ==
    []C4_StaysRejected /\ [][C4_Lifted]_vars

\* The last pass refused the module's template; since then the author raised
\* the version of the template of the channel the module still asks for, so
\* that the next pass lifts the refusal.
C4_Witness ==
    /\ lastOp = "AuthorSetVersion"
    /\ Rejected(templates, MainModuleName)
    /\ RaisedOrReverted
    /\ \E i \in DOMAIN kymaStatus :
         /\ moduleMatch(kymaStatus[i], MainModuleName)
         /\ kymaStatus[i].Channel # MainDesiredChannel

\* C17: for a module whose Valid flag is false, GetRegularTemplates records
\* ErrTemplateNotValid and no template, and calls List for it not once.
C17_InvalidModuleNeverLooksUp ==
    lastOp = "RegularPass" =>
      \A i \in DOMAIN kyma.modules :
        /\ ~kyma.modules[i].Valid
        /\ \A j \in 1..(i - 1) : kyma.modules[j].Name # kyma.modules[i].Name
        => /\ kyma.modules[i].Name \in DOMAIN templates
           /\ templates[kyma.modules[i].Name].Err = ErrTemplateNotValid
           /\ templates[kyma.modules[i].Name].ModuleTemplate = Nil
           /\ \A c \in DOMAIN listCalls : listCalls[c] # kyma.modules[i].Name

\* An invalid module named like a template of the catalog, which a lookup
\* would find, next to a valid module that List was called for.
C17_Witness ==
    /\ lastOp = "RegularPass"
    /\ \E i \in DOMAIN kyma.modules :
         /\ ~kyma.modules[i].Valid
         /\ \E t \in DOMAIN catalog :
              /\ catalog[t].name = kyma.modules[i].Name
              /\ catalog[t].channel = getDesiredChannel(kyma.modules[i].Channel,
                                                        kyma.channel)
         /\ templates[kyma.modules[i].Name].Err = ErrTemplateNotValid
    /\ Len(listCalls) = 1

\* C19: an entry of GetRegularTemplates carries ErrTemplateUpdateNotAllowed
\* only if the lookup returned a template and the status holds an entry whose
\* FQDN or Name is the module name; without such an entry (first install) it
\* never does.
C19_FirstInstallNotChecked ==
    lastOp = "RegularPass" =>
      \A moduleName \in DOMAIN templates :
        templates[moduleName].Err = ErrTemplateUpdateNotAllowed =>
          /\ templates[moduleName].ModuleTemplate # Nil
          /\ \E i \in DOMAIN kymaStatus :
               \/ kymaStatus[i].FQDN = moduleName
               \/ kymaStatus[i].Name = moduleName

\* The status holds an entry of another module only, of another channel and
\* a higher version than the template the module resolves to; the module's
\* entry carries the template and no error.
C19_Witness ==
    /\ lastOp = "RegularPass"
    /\ \E moduleName \in DOMAIN templates :
         /\ templates[moduleName].ModuleTemplate # Nil
         /\ templates[moduleName].Err = ErrNil
         /\ Len(kymaStatus) = 1
         /\ kymaStatus[1].FQDN # moduleName
         /\ kymaStatus[1].Name # moduleName
         /\ kymaStatus[1].Channel # Deref(templates[moduleName].ModuleTemplate).channel
         /\ VersionLower(Deref(templates[moduleName].ModuleTemplate).descriptor.version,
                         kymaStatus[1].Version)

\* The order in which List returns the catalog as it is stored.
StoredOrders == [i \in 1..Len(kyma.modules) |-> [t \in 1..Len(catalog) |-> t]]

\* C20: for a fixed catalog, Kyma and status, the entries GetRegularTemplates
\* returns (the template GetAndValidate found or its error, after
\* checkValidTemplateUpdate) are the same whatever the order in which List
\* returns the templates, however often it ran before and whether or not the
\* descriptors are cached: they are those of a first call with an empty cache
\* and List in stored order.
C20_SameOutcomeEveryCall ==
    lastOp = "RegularPass" =>
      templates = GetRegularTemplates(<<>>, catalog, StoredOrders, kyma,
                                      kymaStatus).templates

\* A call with all descriptors of a three-template catalog already cached,
\* in which the skew check read a descriptor and refused the change.
C20_Witness ==
    /\ lastOp = "RegularPass"
    /\ Len(catalog) = 3
    /\ DOMAIN descriptorCache = DOMAIN CacheOf(catalog, 1, <<>>)
    /\ Cardinality(DOMAIN descriptorCache) > 1
    /\ \E moduleName \in DOMAIN templates :
         /\ templates[moduleName].ModuleTemplate # Nil
         /\ templates[moduleName].Err = ErrTemplateUpdateNotAllowed

\* The Kyma that asks for module i of the Kyma only.
KymaOfModule(i) == [kyma EXCEPT !.modules = <<kyma.modules[i]>>]

\* C21: GetRegularTemplates returns one entry for each distinct module name
\* among the available modules, and the entry of a module is the one a pass
\* for that module alone returns, whatever happens to the other modules of
\* the pass.
C21_EntryPerModuleIndependent ==
    lastOp = "RegularPass" =>
      /\ DOMAIN templates = {kyma.modules[i].Name : i \in DOMAIN kyma.modules}
      /\ \A i \in DOMAIN kyma.modules :
           (\A j \in 1..(i - 1) : kyma.modules[j].Name # kyma.modules[i].Name)
           => templates[kyma.modules[i].Name] =
                GetRegularTemplates(<<>>, catalog,
                                    <<[t \in 1..Len(catalog) |-> t]>>,
                                    KymaOfModule(i), kymaStatus)
                  .templates[kyma.modules[i].Name]

\* Two valid modules in one pass: the first ends in an error of the lookup
\* or of the skew check, the second carries its template and no error.
C21_Witness ==
    /\ lastOp = "RegularPass"
    /\ Len(kyma.modules) = 2
    /\ kyma.modules[1].Valid /\ kyma.modules[2].Valid
    /\ templates[kyma.modules[1].Name].Err
         \in {ErrTemplateNotIdentified, ErrTemplateUpdateNotAllowed}
    /\ templates[kyma.modules[2].Name].Err = ErrNil
    /\ templates[kyma.modules[2].Name].ModuleTemplate # Nil

C8_HiddenTemplateNotAllowed ==
    lastOp = "Reconcile" =>
      \A moduleName \in DOMAIN templates :
        /\ templates[moduleName].ModuleTemplate # Nil
        /\ \/ Deref(templates[moduleName].ModuleTemplate).internal /\ ~kyma.internal
           \/ Deref(templates[moduleName].ModuleTemplate).beta /\ ~kyma.beta
        => templates[moduleName].Err = ErrTemplateNotAllowed

\* C7 (as stated): in the map GetTemplates returns, the entry of a module
\* whose template has the channel of the module's recorded status is Outdated
\* exactly when the template's generation differs from the recorded one.
C7_OutdatedFollowsGeneration ==
    lastOp = "GetTemplates" =>
      \A moduleName \in DOMAIN templates : \A i \in DOMAIN kymaStatus :
        /\ kymaStatus[i].FQDN = moduleName
        /\ kymaStatus[i].Template # Nil
        /\ templates[moduleName].ModuleTemplate # Nil
        /\ Deref(templates[moduleName].ModuleTemplate).channel = kymaStatus[i].Channel
        => (templates[moduleName].Outdated <=>
              Deref(templates[moduleName].ModuleTemplate).generation
                # Deref(kymaStatus[i].Template).Generation)

-----------------------------------------------------------------------------
(* Claims about the owner change propagator (SpecOwner) *)

\* The last callback's object, and the positions of the owner references
\* the handler looks at: the first one marked as controller when
\* IsController is set, all of them otherwise.
EventObject == Deref(queue).object

EventRefs == EventObject.OwnerReferences

Considered ==
    IF handler.IsController
    THEN {i \in DOMAIN EventRefs :
            EventRefs[i].Controller /\ \A j \in 1..(i - 1) : ~EventRefs[j].Controller}
    ELSE DOMAIN EventRefs

\* The apiVersion is group/version, or a version alone.
RefParses(ref) == Len(ref.APIVersion) <= 2

RefVersion(ref) == ref.APIVersion[Len(ref.APIVersion)]

\* Group and kind of the reference are those of the owner type.
RefMatches(ref) ==
    /\ ref.Kind = handler.groupKind.Kind
    /\ Len(ref.APIVersion) = 2
    /\ ref.APIVersion[1] = handler.groupKind.Group

\* The mapper knows the owner kind at the version of the reference.
RefMapped(ref) == RefVersion(ref) \in Deref(handler.mapper).versions

\* The work item of an owner reference of the event's object.
WorkItem(ref) ==
    [Name |-> ref.Name,
     Namespace |-> IF Deref(handler.mapper).scope = RESTScopeNameNamespace
                   THEN EventObject.Namespace ELSE ""]

\* The value read for status.state: the empty string when it is absent.
StateRead(object) == IF object.state = Nil THEN "" ELSE Deref(object.state)

\* An update in which the values read for status.state are equal.
SameStateRead ==
    /\ Deref(queue).old # Nil
    /\ StateRead(Deref(Deref(queue).old)) = StateRead(EventObject)

\* Every reference the handler looks at has an apiVersion that parses.
NoneUnparsable == \A j \in Considered : RefParses(EventRefs[j])

\* Reference i yields its work item in the last callback.
Yields(i) ==
    /\ i \in Considered
    /\ NoneUnparsable
    /\ RefMatches(EventRefs[i])
    /\ RefMapped(EventRefs[i])
    /\ ~SameStateRead

\* The references the handler looks at are of the owner type and name one
\* owner.
OneOwner ==
    /\ Considered # {}
    /\ \A i \in Considered : RefMatches(EventRefs[i])
    /\ \A i, j \in Considered : EventRefs[i].Name = EventRefs[j].Name

\* C23: in one callback q.Add is called at most once with each work item;
\* owner references of the owner type that all name one owner give at most
\* one work item, and exactly one when any of them yields.
C23_OneAddPerWorkItem ==
    queue # Nil =>
      /\ \A item \in BagToSet(Deref(queue).adds) : CopiesIn(item, Deref(queue).adds) = 1
      /\ OneOwner => BagCardinality(Deref(queue).adds) <= 1
      /\ (OneOwner /\ \E i \in Considered : Yields(i))
           => BagCardinality(Deref(queue).adds) = 1

\* A Create event whose object has two owner references of the owner type
\* to one owner, at two versions the mapper knows: one call of q.Add.
C23_Witness ==
    /\ queue # Nil
    /\ Deref(queue).event = "Create"
    /\ ~handler.IsController
    /\ Len(EventRefs) = 2
    /\ OneOwner
    /\ EventRefs[1] # EventRefs[2]
    /\ Yields(1) /\ Yields(2)
    /\ BagCardinality(Deref(queue).adds) = 1

\* Both objects of the last update carry status.state.
BothStatesPresent ==
    /\ Deref(queue).event = "Update"
    /\ Deref(Deref(queue).old).state # Nil
    /\ EventObject.state # Nil

C25_MissingStateNeverBlocks ==
    (/\ queue # Nil
     /\ Deref(queue).event = "Update"
     /\ Deref(Deref(queue).old).state = Nil \/ EventObject.state = Nil
     /\ NoneUnparsable)
    => \A i \in Considered :
         (RefMatches(EventRefs[i]) /\ RefMapped(EventRefs[i]))
         => BagIn(WorkItem(EventRefs[i]), Deref(queue).adds)

\* The callback has no old object.
WithoutOld == Deref(queue).event \in {"Create", "Delete", "Generic"}

C27_UnparsableReferenceNoWorkItem ==
    (queue # Nil /\ \E i \in Considered : ~RefParses(EventRefs[i]))
    => Deref(queue).adds = EmptyBag

\* C28: every work item added has the name of an owner reference of the
\* event's object whose group and kind are those of the owner type, whatever
\* the version of the reference, and has the object's namespace when the
\* owner kind is namespaced and none when it is cluster-scoped.
C28_WorkItemOfMatchingReference ==
    queue # Nil =>
      \A item \in BagToSet(Deref(queue).adds) :
        /\ \E i \in DOMAIN EventRefs :
             /\ RefMatches(EventRefs[i])
             /\ item.Name = EventRefs[i].Name
        /\ Deref(handler.mapper).scope = RESTScopeNameNamespace
             => item.Namespace = EventObject.Namespace
        /\ Deref(handler.mapper).scope = RESTScopeNameRoot
             => item.Namespace = ""

\* A cluster-scoped owner kind registered at v1 and an object whose only
\* reference names the owner at v2: the work item has no namespace.
C28_Witness ==
    /\ queue # Nil
    /\ Deref(handler.mapper).scope = RESTScopeNameRoot
    /\ Len(EventRefs) = 1
    /\ RefVersion(EventRefs[1]) = "v2"
    /\ Deref(queue).adds = SetToBag({[Name |-> EventRefs[1].Name, Namespace |-> ""]})

\* C29: with IsController set a work item comes from the owner reference
\* marked as controller only, and an object without such a reference gives
\* none; with IsController unset every owner reference is looked at.
C29_ControllerReferenceOnly ==
    queue # Nil =>
      IF handler.IsController
      THEN /\ (\A i \in DOMAIN EventRefs : ~EventRefs[i].Controller)
                => Deref(queue).adds = EmptyBag
           /\ \A item \in BagToSet(Deref(queue).adds) :
                \E i \in DOMAIN EventRefs :
                  /\ EventRefs[i].Controller
                  /\ RefMatches(EventRefs[i])
                  /\ item = WorkItem(EventRefs[i])
      ELSE \A i \in DOMAIN EventRefs :
             (/\ \A j \in DOMAIN EventRefs : RefParses(EventRefs[j])
              /\ RefMatches(EventRefs[i])
              /\ RefMapped(EventRefs[i])
              /\ ~SameStateRead)
             => BagIn(WorkItem(EventRefs[i]), Deref(queue).adds)

\* IsController is set and the object has matching references to two
\* owners, the second marked as controller: only the second owner's work item
\* is added.
C29_Witness ==
    /\ queue # Nil
    /\ handler.IsController
    /\ Len(EventRefs) = 2
    /\ RefMatches(EventRefs[1]) /\ RefMapped(EventRefs[1])
    /\ ~EventRefs[1].Controller /\ EventRefs[2].Controller
    /\ EventRefs[1].Name # EventRefs[2].Name
    /\ Deref(queue).adds = SetToBag({WorkItem(EventRefs[2])})

\* The number of kinds the scheme given to InjectScheme knows the owner type
\* under.
KindsOfOwnerType ==
    IF handler.OwnerType \in DOMAIN Deref(handler.scheme)
    THEN Len(Deref(handler.scheme)[handler.OwnerType])
    ELSE 0

\* C30: InjectScheme returns ErrNoUniqueKind whenever the owner type has no
\* kind or more than one, leaves groupKind unset whenever it fails, and sets
\* it only when there is exactly one kind.
C30_NoUniqueKindOnZeroOrMany ==
    handler.schemeErr # Nil =>
      /\ KindsOfOwnerType # 1 => Deref(handler.schemeErr) = ErrNoUniqueKind
      /\ Deref(handler.schemeErr) # ErrNil => handler.groupKind = EmptyGroupKind
      /\ handler.groupKind # EmptyGroupKind => KindsOfOwnerType = 1

-----------------------------------------------------------------------------
(* Claims about the Kyma controller's watches (SpecSetup) *)

\* C31: a generic event on the listener channel whose object is unstructured
\* and carries an owner of type ObjectKey adds exactly one request, for that
\* key, to the queue; an event with any other object adds nothing.
C31_ListenerEventEnqueuesOwner ==
    (queue # Nil /\ lastOp = "ListenerEvent") =>
      LET payload == Deref(queue).object IN
      IF /\ payload.unstructured
         /\ "owner" \in DOMAIN payload.Object
         /\ payload.Object["owner"].type = "ObjectKey"
      THEN /\ Deref(queue).passes
           /\ BagToSet(Deref(queue).adds) =
                {[Name |-> payload.Object["owner"].Name,
                  Namespace |-> payload.Object["owner"].Namespace]}
           /\ BagCardinality(Deref(queue).adds) = 1
      ELSE Deref(queue).adds = EmptyBag

\* A listener event for the watched object kyma-b with the owner kyma-a: one
\* request, for kyma-a.
C31_Witness ==
    /\ queue # Nil
    /\ lastOp = "ListenerEvent"
    /\ "owner" \in DOMAIN Deref(queue).object.Object
    /\ Deref(queue).object.Object["watched"].Name = "kyma-b"
    /\ Deref(queue).adds = SetToBag({[Name |-> "kyma-a", Namespace |-> "kcp-system"]})

\* C32: an update of a Manifest that changes status.state and leaves
\* metadata.generation as it was adds a request for the Kyma that controls
\* the Manifest.
C32_ManifestStateChangeEnqueuesKyma ==
    (/\ queue # Nil
     /\ lastOp = "ManifestUpdate"
     /\ Deref(Deref(queue).old).generation = EventObject.generation
     /\ Deref(Deref(queue).old).state # Nil
     /\ EventObject.state # Nil
     /\ Deref(Deref(queue).old).state # EventObject.state)
    => \A i \in DOMAIN EventRefs :
         EventRefs[i].Controller
         => BagIn([Name |-> EventRefs[i].Name, Namespace |-> EventObject.Namespace],
                  Deref(queue).adds)

-----------------------------------------------------------------------------
(* Claims about concurrent GetDescriptor calls (SpecDescriptor) *)

\* C36: concurrent calls of GetDescriptor on one template all return a
\* descriptor equal to the decode of the raw descriptor, or its error; a
\* failed decode stores nothing; and a call made after a call that returned a
\* descriptor returns the memoized one without decoding.
C36_ConcurrentCallsReturnTheDecode ==
    LET decoded == Decode(Deref(Descriptor).Raw) IN
    /\ \A g \in Goroutines :
         callers[g].pc = "done" =>
           LET ret == Deref(callers[g].ret) IN
           IF decoded.err # ErrNil
           THEN ret.desc = Nil /\ ret.err = decoded.err
           ELSE /\ ret.err = ErrNil
                /\ ret.desc = Ptr([Name |-> decoded.Name, Version |-> decoded.Version])
                /\ callers[g].after => callers[g].decodes = 0
    /\ decoded.err # ErrNil => Deref(Descriptor).Object = NilObject

-----------------------------------------------------------------------------
(* Claims about the readiness check (SpecReady) *)

ReadyCall == Deref(call)

\* The deployment among the resources, if any, is neither Available nor has
\* all its replicas ready.
DeploymentNotReady ==
    \E i \in DOMAIN ReadyCall.resources :
      /\ ReadyCall.resources[i].deployment
      /\ \A j \in 1..(i - 1) : ~ReadyCall.resources[j].deployment
      /\ ReadyCall.resources[i].available # "True"
      /\ \/ ReadyCall.resources[i].replicas = Nil
         \/ Deref(ReadyCall.resources[i].replicas) # ReadyCall.resources[i].readyReplicas

\* The path and value the check looks for.
CheckedPath ==
    IF ReadyCall.manifest.Annotation = Nil THEN <<"status", "state">>
    ELSE Deref(ReadyCall.manifest.Annotation).JSONPath

CheckedValue ==
    IF ReadyCall.manifest.Annotation = Nil THEN "Ready"
    ELSE Deref(ReadyCall.manifest.Annotation).Value

\* The string the custom resource holds at the checked path, Nil without one.
StateFromCR ==
    LET object == ReadyCall.get.Object
        path == CheckedPath
    IN
    IF /\ Len(path) = 2
       /\ path[1] \in DOMAIN object.m
       /\ object.m[path[1]].kind = "map"
       /\ path[2] \in DOMAIN object.m[path[1]].m
       /\ object.m[path[1]].m[path[2]].kind = "string"
    THEN Ptr(object.m[path[1]].m[path[2]].s)
    ELSE Nil

\* The checks before the state is read have passed.
StateIsRead ==
    /\ ~DeploymentNotReady
    /\ ReadyCall.manifest.Resource # Nil
    /\ ReadyCall.get.err = ErrNil
    /\ ReadyCall.manifest.Annotation # Nil => Deref(ReadyCall.manifest.Annotation).valid

\* C37: Run returns a nil error only with Ready or Warning and otherwise
\* Error with an error: so when the deployment is not ready, the custom
\* resource cannot be read, the state field is missing, or the state is
\* another value; a state equal to the configured value counts as Ready.
C37_NilErrorOnlyWithReadyOrWarning ==
    (call # Nil /\ lastOp = "ReadyCheck") =>
      LET ret == ReadyCall.ret IN
      /\ \/ ret.err = ErrNil /\ ret.state \in {"Ready", "Warning"}
         \/ ret.err # ErrNil /\ ret.state = "Error"
      /\ DeploymentNotReady => ret.err # ErrNil
      /\ (ReadyCall.manifest.Resource # Nil /\ ReadyCall.get.err # ErrNil)
           => ret.err # ErrNil
      /\ (ReadyCall.manifest.Resource # Nil /\ StateFromCR = Nil) => ret.err # ErrNil
      /\ (/\ ReadyCall.manifest.Resource # Nil
          /\ StateFromCR # Nil
          /\ Deref(StateFromCR) \notin {"Ready", "Warning", CheckedValue})
           => ret.err # ErrNil
      /\ (StateIsRead /\ StateFromCR # Nil /\ Deref(StateFromCR) = CheckedValue)
           => ret = [state |-> "Ready", err |-> ErrNil]

\* The custom resource is in state Processing, which the annotation names as
\* the value to wait for, next to a deployment that is available: Ready.
C37_Witness ==
    /\ call # Nil
    /\ lastOp = "ReadyCheck"
    /\ StateIsRead
    /\ StateFromCR = Ptr("Processing")
    /\ CheckedValue = "Processing"
    /\ \E i \in DOMAIN ReadyCall.resources : ReadyCall.resources[i].deployment
    /\ ReadyCall.ret = [state |-> "Ready", err |-> ErrNil]

-----------------------------------------------------------------------------
(* Claims about the REST config of a Kyma (SpecRESTConfig) *)

RESTCall == Deref(call)

\* The secrets that carry the Kyma-name label with the owner's name.
Labelled ==
    {i \in DOMAIN RESTCall.secrets : RESTCall.secrets[i].Label = Ptr(RESTCall.kymaOwner)}

\* The secrets named after the owner.
NamedAfterOwner ==
    {i \in DOMAIN RESTCall.secrets : RESTCall.secrets[i].Name = RESTCall.kymaOwner}

\* The call uses the secret at index i: it returns the config of its
\* kubeconfig, or the error of reading it.
UsesSecret(i) ==
    IF RESTCall.secrets[i].Config.valid
    THEN RESTCall.ret = [config |-> Ptr([Host |-> RESTCall.secrets[i].Config.host]),
                         err |-> ErrNil]
    ELSE RESTCall.ret.config = Nil /\ RESTCall.ret.err = ErrInvalidKubeconfig

\* C38: with more than one secret carrying the Kyma-name label GetRESTConfig
\* returns no config but the conflict error; with exactly one it uses that
\* secret; with none it uses the secret named after the owner, or fails with
\* ErrKubeconfigFetchFailed. The numbers are those of a List that succeeded.
C38_NoConfigFromSeveralSecrets ==
    (call # Nil /\ lastOp = "CallGetRESTConfig") =>
      /\ Cardinality(Labelled) > 1 => RESTCall.ret.config = Nil
      /\ RESTCall.listErr = ErrNil =>
           /\ Cardinality(Labelled) > 1 => RESTCall.ret.err = ErrMoreThanOneSecretFound
           /\ Cardinality(Labelled) = 1 => \A i \in Labelled : UsesSecret(i)
           /\ Cardinality(Labelled) = 0 =>
                IF NamedAfterOwner = {}
                THEN RESTCall.ret = [config |-> Nil, err |-> ErrKubeconfigFetchFailed]
                ELSE \A i \in NamedAfterOwner : UsesSecret(i)

\* Two secrets with a good kubeconfig carry the label of kyma-a, the one named
\* kyma-a is not among them: the conflict error.
C38_Witness ==
    /\ call # Nil
    /\ lastOp = "CallGetRESTConfig"
    /\ RESTCall.listErr = ErrNil
    /\ Cardinality(Labelled) = 2
    /\ \A i \in Labelled : RESTCall.secrets[i].Config.valid
    /\ Labelled \cap NamedAfterOwner = {}
    /\ RESTCall.ret = [config |-> Nil, err |-> ErrMoreThanOneSecretFound]

====
